---- MODULE Spec2Model ----
(***************************************************************************)
(* Run coordination core of scfuzzbench: the S3 global lock (s3_lock.py),  *)
(* the queue initializer (s3_queue_init.py) and the queue worker           *)
(* (s3_queue_worker.py), over one shared object store.                     *)
(*                                                                         *)
(* Every object-store call (get, put, delete, head, list) is one atomic    *)
(* step; the local computation between two calls belongs to the step of    *)
(* the call that follows it.  The store itself is read-after-write         *)
(* consistent, and its calls succeed.                                      *)
(***************************************************************************)
EXTENDS Integers, Sequences, FiniteSets, TLC

VARIABLES
    now,          \* wall clock, epoch seconds
    lock,         \* runs/_control/global-lock.json
    shards,       \* queue/shards/<shard_key>.json, per shard key
    runStatus,    \* status/run.json
    dlq,          \* dlq/<shard>-<attempt>.json objects
    pc,           \* position of each thread: a worker's main thread in
                  \* QueueWorker.run (or a shell calling the lock script), its
                  \* heartbeat thread in heartbeat_loop
    loc,          \* locals of each worker's main thread:
                  \*   todo      load_shards: keys listed and not yet read
                  \*   snap      load_shards: the shard payloads read
                  \*   idx       claim_shard / init main: last key the for loop handled
                  \*   nowEpoch  claim_shard: now_epoch taken on entry
                  \*   tok       claim_shard: claim_token of the tentative claim
                  \*   cur       run: the (key, shard) pair claim_shard returned
                  \*   exitCode  run: exit_code of run_shard
                  \*   existing  refresh_run_status / update_run_status: run.json as read
                  \*   ret       load_shards: the caller to return to
                  \*   last_run_state  QueueWorker.last_run_state
    lk,           \* locals of each thread's lock command:
                  \*   started   cmd_acquire: started
                  \*   token     cmd_acquire: payload["token"]
                  \*   held      cmd_acquire: the lock payload printed with acquired=true
                  \*   rc        exit code of the last lock command, -1 before any
    lock_lost_event,  \* QueueWorker.lock_lost_event
    stop_event,   \* QueueWorker.stop_event
    shard_max_attempts,  \* QueueWorker.shard_max_attempts, the run's configuration
    shards_json,  \* SCFUZZBENCH_SHARDS_JSON_B64 decoded: the value json.loads returns
    shard_list,   \* the shard keys parse_shards returns for it
    owner,        \* SCFUZZBENCH_LOCK_OWNER of each thread's worker
    role,         \* what runs on the thread: "worker", "cli", "heartbeat", or "off"
    lock_lease_seconds,  \* QueueWorker.lock_lease_seconds
    lock_acquire_timeout_seconds,  \* QueueWorker.lock_acquire_timeout_seconds
    lock_heartbeat_seconds,  \* QueueWorker.lock_heartbeat_seconds
    env,          \* os.environ of a worker process: the two lock settings
    lock_item,         \* benchmark_lock.py: the item stored under lock_name in the
                  \* DynamoDB lock table
    dl,           \* benchmark_lock.py: locals of each shell's command:
                  \*   cmd             args.cmd
                  \*   lease_seconds   acquire_lock: lease_seconds
                  \*   deadline_epoch  acquire_lock: deadline_epoch, -1 for None
                  \*   now_epoch       acquire_lock: now_epoch of the iteration
                  \*   attempt         acquire_lock: attempt
                  \*   rc              exit code of the last command, -1 before any
    oracle,       \* run_completion.py check: its arguments, the manifest objects
                  \* of the run it is asked about, and the Completion it returned
    invoked,      \* history: number of runner invocations per shard
    succRecorded, \* history: a succeeded status has been written for the shard
    bootstrapEvents  \* status/events/: the bootstrap queued events, counted per shard

storeVars == <<now, lock, shards, runStatus, dlq>>
queueStore == <<shards, runStatus, dlq>>
cfgVars == <<shard_max_attempts, shards_json, shard_list, owner, role, lock_lease_seconds,
             lock_acquire_timeout_seconds, lock_heartbeat_seconds, env, oracle,
             lock_item, dl>>
eventVars == <<lock_lost_event, stop_event>>
histVars == <<invoked, succRecorded, bootstrapEvents>>
vars == <<storeVars, pc, loc, lk, eventVars, cfgVars, histVars>>

----------------------------------------------------------------------------
(* Bounds of the model *)

MaxTicks == 1               \* ticks the clock is followed for (further while a retry is pending)
MaxShardMaxAttempts == 2    \* SCFUZZBENCH_SHARD_MAX_ATTEMPTS is drawn from 1..this
MaxInvocations == 2         \* runner invocations per shard that the model follows
MaxBackoffAttempts == 6     \* max_attempts of the shard whose retry delays are followed to the cap
MaxListLen == 2             \* entries of a shard list handed to the initializer script
MaxLeaseTicks == 3          \* half leases the clock of the DynamoDB lock is followed for
MaxLockAttempts == 2        \* refused conditional puts of one acquire that are followed

Workers == {1, 2}
Hb(w) == w + 10             \* the heartbeat thread of worker w
HbThreads == {Hb(w) : w \in Workers}
Threads == Workers \cup HbThreads
WorkerOf(t) == IF t \in Workers THEN t ELSE t - 10
ShardKeys == {1, 2}         \* the shard list, in key order
ExitCodes == {0, 1, 124}

(* Program constants *)

RetryBaseSeconds == 30
RetryCapSeconds == 300
TimeoutExitCode == 124
DefaultFailedExitCode == 1
MinLeaseSeconds == 30
DefaultLeaseSeconds == 900
MinHeartbeatSeconds == 15
DefaultHeartbeatSeconds == 60
MinDynamoLeaseSeconds == 300
SecondsPerHour == 3600
DefaultTimeoutHours == 24
DefaultGraceSeconds == 3600

TickSeconds == RetryBaseSeconds

----------------------------------------------------------------------------
(* Payloads *)

NoTime == -1
NoToken == 0
NoKey == 0

NoShard ==
    [status |-> "absent", attempt |-> 0, max_attempts |-> 0, claim_token |-> NoToken,
     retry_available_at_epoch |-> 0, last_exit_code |-> -1]

Statuses == {"queued", "running", "retrying", "succeeded", "failed", "timed_out"}
TerminalStatuses == {"succeeded", "failed", "timed_out"}

ZeroCounts == [s \in Statuses \cup {"total"} |-> 0]

NoRunStatus ==
    [state |-> "absent", terminal |-> FALSE, counts |-> ZeroCounts,
     created_at |-> NoTime, completed_at |-> NoTime]

NoLock == [owner |-> 0, token |-> NoToken, expires_at_epoch |-> 0]

Min(S) == CHOOSE x \in S : \A y \in S : x <= y
Max2(a, b) == IF a >= b THEN a ELSE b
Min2(a, b) == IF a <= b THEN a ELSE b

RECURSIVE Pow2(_)
Pow2(n) == IF n <= 0 THEN 1 ELSE 2 * Pow2(n - 1)

\* uuid.uuid4().hex, minted by thread t.  A token is only ever compared with
\* the token stored in the object its minter wrote last, and every later
\* write of the same thread to that object replaces the token it stored; so
\* two tokens that meet in a comparison are equal iff they come from the same
\* write, and the minting thread identifies the token.  None is "".
Uuid4(t) == t

----------------------------------------------------------------------------
(* s3_queue_init.py *)

\* json.loads: the values an entry's run_index can decode to, by Python
\* type; val is the number it compares as (True compares as 1)
RunIndexValues ==
    {[type |-> "int", val |-> -1], [type |-> "int", val |-> 0],
     [type |-> "bool", val |-> 1], [type |-> "float", val |-> 1],
     [type |-> "str", val |-> 0], [type |-> "NoneType", val |-> 0]}

\* json.loads: the entries of a decoded list. obj tells a JSON object from
\* any other value; a key that is missing, empty or blank is NoKey (what
\* str(item.get(..., "")).strip() makes falsy)
ShardEntries ==
    {[obj |-> FALSE, shard_key |-> NoKey, fuzzer_key |-> NoKey,
      run_index |-> [type |-> "NoneType", val |-> 0]]}
    \cup [obj : {TRUE}, shard_key : {NoKey} \cup ShardKeys, fuzzer_key : {NoKey, 1},
          run_index : RunIndexValues]

\* json.loads: a list of at most MaxListLen entries, or a value that is not a list
ShardsJsonValues ==
    {[is_list |-> FALSE, items |-> <<>>]}
    \cup {[is_list |-> TRUE, items |-> items] :
            items \in UNION {[1..n -> ShardEntries] : n \in 0..MaxListLen}}

\* a well-formed entry for shard key k
ShardEntry(k) ==
    [obj |-> TRUE, shard_key |-> k, fuzzer_key |-> 1,
     run_index |-> [type |-> "int", val |-> 0]]

\* the decoded list with one well-formed entry per key, in key order
RECURSIVE EntriesOf(_)
EntriesOf(keys) ==
    IF keys = {} THEN <<>>
    ELSE <<ShardEntry(Min(keys))>> \o EntriesOf(keys \ {Min(keys)})

ShardsJsonOf(keys) == [is_list |-> TRUE, items |-> EntriesOf(keys)]

\* isinstance(run_index, int): bool is a subclass of int
isinstance_int(v) == v.type \in {"int", "bool"}

\* parse_shards: raise ValueError(...)
Raised == [ok |-> FALSE, shards |-> <<>>]

\* parse_shards: the for loop over the decoded list
RECURSIVE ParseItems(_, _, _)
ParseItems(items, seen, out) ==
    IF items = <<>> THEN [ok |-> TRUE, shards |-> out]
    ELSE LET item == Head(items) IN
         IF ~item.obj THEN Raised
         ELSE IF item.shard_key = NoKey \/ item.fuzzer_key = NoKey THEN Raised
         ELSE IF ~isinstance_int(item.run_index) \/ item.run_index.val < 0 THEN Raised
         ELSE IF item.shard_key \in seen THEN Raised
         ELSE ParseItems(Tail(items), seen \cup {item.shard_key},
                         Append(out, item.shard_key))

\* parse_shards(encoded), on the decoded value
parse_shards(value) ==
    IF ~value.is_list THEN Raised ELSE ParseItems(value.items, {}, <<>>)

\* a new shard that counts its creation as an attempt
QueuedShardAttemptOne(max_attempts) ==
    [status |-> "queued", attempt |-> 1, max_attempts |-> max_attempts,
     claim_token |-> NoToken, retry_available_at_epoch |-> 0, last_exit_code |-> -1]

\* main: the payload of a newly created shard object
QueuedShard(max_attempts) ==
    [status |-> "queued", attempt |-> 0, max_attempts |-> max_attempts,
     claim_token |-> NoToken, retry_available_at_epoch |-> 0, last_exit_code |-> -1]

\* an existence test that never finds the object
s3_existsNever(k) == FALSE

\* s3_exists: head-object succeeds
s3_exists(k) == shards[k] # NoShard

\* count_states, over the payloads load_shard_states returned
count_states(sn) ==
    [s \in Statuses \cup {"total"} |->
        IF s = "total" THEN Cardinality({k \in ShardKeys : sn[k] # NoShard})
        ELSE Cardinality({k \in ShardKeys : sn[k] # NoShard /\ sn[k].status = s})]

\* an inflight count that forgets the shards waiting for a retry
InflightNoRetrying(counts) == counts["queued"] + counts["running"]

Inflight(counts) == counts["queued"] + counts["running"] + counts["retrying"]

\* an aggregator for which a timed-out shard does not fail the run
UpdateRunStatusTimedOutPasses(ex, sn, t) ==
    LET counts == count_states(sn)
        terminal == Inflight(counts) = 0 /\ counts["total"] > 0
        state == IF terminal
                 THEN (IF counts["failed"] > 0 THEN "failed" ELSE "succeeded")
                 ELSE "running"
    IN  [state |-> state, terminal |-> terminal, counts |-> counts,
         created_at |-> IF ex.created_at # NoTime THEN ex.created_at ELSE t,
         completed_at |-> IF terminal
                          THEN (IF ex.completed_at # NoTime THEN ex.completed_at ELSE t)
                          ELSE ex.completed_at]

\* update_run_status: the payload written to status/run.json
update_run_status(ex, sn, t) ==
    LET counts == count_states(sn)
        terminal == Inflight(counts) = 0 /\ counts["total"] > 0
        state == IF terminal
                 THEN (IF counts["failed"] + counts["timed_out"] > 0
                       THEN "failed" ELSE "succeeded")
                 ELSE "running"
    IN  [state |-> state, terminal |-> terminal, counts |-> counts,
         created_at |-> IF ex.created_at # NoTime THEN ex.created_at ELSE t,
         completed_at |-> IF terminal
                          THEN (IF ex.completed_at # NoTime THEN ex.completed_at ELSE t)
                          ELSE ex.completed_at]

----------------------------------------------------------------------------
(* s3_queue_worker.py: pure parts *)

\* shard_counts, over the payloads load_shards returned
shard_counts(sn) ==
    [s \in Statuses \cup {"total"} |->
        IF s = "total" THEN Cardinality({k \in ShardKeys : sn[k] # NoShard})
        ELSE Cardinality({k \in ShardKeys : sn[k] # NoShard /\ sn[k].status = s})]

\* an aggregator that stamps completed_at anew on every terminal write
RefreshFreshCompletedAt(ex, sn, t) ==
    LET counts == shard_counts(sn)
        terminal == Inflight(counts) = 0 /\ counts["total"] > 0
        state == IF terminal
                 THEN (IF counts["failed"] + counts["timed_out"] > 0
                       THEN "failed" ELSE "succeeded")
                 ELSE "running"
    IN  [state |-> state, terminal |-> terminal, counts |-> counts,
         created_at |-> IF ex.created_at # NoTime THEN ex.created_at ELSE t,
         completed_at |-> IF terminal THEN t ELSE ex.completed_at]

\* refresh_run_status: the payload written to status/run.json
refresh_run_status(ex, sn, t) ==
    LET counts == shard_counts(sn)
        terminal == Inflight(counts) = 0 /\ counts["total"] > 0
        state == IF terminal
                 THEN (IF counts["failed"] + counts["timed_out"] > 0
                       THEN "failed" ELSE "succeeded")
                 ELSE "running"
    IN  [state |-> state, terminal |-> terminal, counts |-> counts,
         created_at |-> IF ex.created_at # NoTime THEN ex.created_at ELSE t,
         completed_at |-> IF terminal
                          THEN (IF ex.completed_at # NoTime THEN ex.completed_at ELSE t)
                          ELSE ex.completed_at]

\* a scan that passes over retrying shards
IsCandidateQueuedOnly(sh, now_epoch) == sh.status = "queued"

\* a scan that makes a retrying shard wait one second longer
IsCandidateStrictlyAfter(sh, now_epoch) ==
    /\ sh.status \in {"queued", "retrying"}
    /\ ~(sh.status = "retrying" /\ now_epoch <= sh.retry_available_at_epoch)

\* claim_shard: the scan's filter on status and retry time
IsCandidate(sh, now_epoch) ==
    /\ sh.status \in {"queued", "retrying"}
    /\ ~(sh.status = "retrying" /\ now_epoch < sh.retry_available_at_epoch)

\* a ceiling that is off by one
EffectiveMaxAttemptsOffByOne(sh) == Max2(sh.max_attempts, 1) + 1

\* claim_shard / complete_shard: max(parse_int(shard.max_attempts, ...), 1)
EffectiveMaxAttempts(sh) == Max2(sh.max_attempts, 1)

\* claim_shard: if attempt >= max_attempts
AttemptsExhausted(sh) == sh.attempt >= EffectiveMaxAttempts(sh)

\* claim_shard: the payload written for a candidate with no attempt left
MarkExhausted(sh) ==
    [sh EXCEPT !.status = "failed",
               !.last_exit_code = IF @ = -1 THEN DefaultFailedExitCode ELSE @]

\* claim_shard: the tentative claim payload
TentativeClaim(sh, token) ==
    [sh EXCEPT !.status = "running", !.attempt = sh.attempt + 1,
               !.claim_token = token, !.retry_available_at_epoch = 0]

\* claim_shard: the three checks on the re-read payload
ClaimConfirmed(confirmed, token) ==
    /\ confirmed # NoShard
    /\ confirmed.claim_token = token
    /\ confirmed.status = "running"

\* a classification without the timeout sentinel
TerminalStatusNoTimeout(exit_code) ==
    IF exit_code = 0 THEN "succeeded" ELSE "failed"

\* complete_shard: classification of the exit code
terminal_status(exit_code) ==
    IF exit_code = 0 THEN "succeeded"
    ELSE IF exit_code = TimeoutExitCode THEN "timed_out"
    ELSE "failed"

\* a backoff without the cap
RetrySecondsUncapped(attempt) == Pow2(Max2(attempt - 1, 0)) * RetryBaseSeconds

\* complete_shard: min(300, (2 ** max(attempt - 1, 0)) * 30)
retry_seconds(attempt) ==
    Min2(RetryCapSeconds, Pow2(Max2(attempt - 1, 0)) * RetryBaseSeconds)

\* a retry test that admits the last attempt
MayRetryInclusive(sh) == sh.attempt <= Max2(sh.max_attempts, 1)

\* complete_shard: if attempt < max_attempts (the retry branch)
MayRetry(sh) == sh.attempt < EffectiveMaxAttempts(sh)

\* complete_shard: the payload written to the shard object
complete_shard(sh, exit_code, t) ==
    LET base == [sh EXCEPT !.last_exit_code = exit_code, !.claim_token = NoToken]
    IN  IF terminal_status(exit_code) = "succeeded"
        THEN [base EXCEPT !.status = "succeeded", !.retry_available_at_epoch = 0]
        ELSE IF MayRetry(sh)
        THEN [base EXCEPT !.status = "retrying",
                          !.retry_available_at_epoch = t + retry_seconds(sh.attempt)]
        ELSE [base EXCEPT !.status = terminal_status(exit_code),
                          !.retry_available_at_epoch = 0]

\* dlq: the object written under dlq/
DlqEntry(k, sh, exit_code, status) ==
    [shard_key |-> k, attempt |-> sh.attempt, status |-> status]

----------------------------------------------------------------------------
(* s3_lock.py: pure parts *)

\* lock_expired(lock, now_epoch)
lock_expired(lk_, now_epoch) ==
    IF lk_ = NoLock THEN TRUE ELSE now_epoch >= lk_.expires_at_epoch

\* build_payload; the generation counter, which no command reads back to
\* decide anything, is left out
build_payload(own, lease_seconds, token, t) ==
    [owner |-> own, token |-> token, expires_at_epoch |-> t + Max2(lease_seconds, 1)]

\* an ownership test with the comparison inverted
HeldByOtherInverted(lk_, own, now_epoch) ==
    lk_ # NoLock /\ ~lock_expired(lk_, now_epoch) /\ lk_.owner = own

\* cmd_acquire: if lock and not expired, and current_owner != args.owner
HeldByOther(lk_, own, now_epoch) ==
    lk_ # NoLock /\ ~lock_expired(lk_, now_epoch) /\ lk_.owner # own

\* cmd_acquire: timeout > 0 and (time.time() - started) >= timeout
AcquireTimedOut(started, t) ==
    /\ lock_acquire_timeout_seconds > 0
    /\ t - started >= lock_acquire_timeout_seconds

\* cmd_acquire: the check of the re-read payload
AcquireConfirmed(confirmed, own, token) ==
    confirmed # NoLock /\ confirmed.owner = own /\ confirmed.token = token

\* a heartbeat check that turns down an expired lock, the expiry instant included
HeartbeatRefusedWhenExpired(lk_, own, now_epoch) ==
    lk_.owner # own \/ lock_expired(lk_, now_epoch)

\* cmd_heartbeat: the two owner checks made on the lock read (both return 2)
HeartbeatRefused(lk_, own, now_epoch) ==
    \/ lk_.owner # own /\ ~lock_expired(lk_, now_epoch)
    \/ lk_.owner # own

\* cmd_release: the owner check made on the lock read (returns 1)
ReleaseRefused(lk_, own, now_epoch) ==
    lk_.owner # own /\ ~lock_expired(lk_, now_epoch)

----------------------------------------------------------------------------
(* Helpers of the step relation *)

NoCur == [key |-> NoKey, shard |-> NoShard]
EmptySnap == [k \in ShardKeys |-> NoShard]
NoExisting == [created_at |-> NoTime, completed_at |-> NoTime]

\* the two fields of status/run.json that the aggregators read back
ReadExisting(rs) == [created_at |-> rs.created_at, completed_at |-> rs.completed_at]

NoLoc ==
    [todo |-> {}, snap |-> EmptySnap, idx |-> NoKey, nowEpoch |-> 0, tok |-> NoToken,
     cur |-> NoCur, exitCode |-> 0, existing |-> NoExisting, ret |-> "none",
     last_run_state |-> ""]

NoLk == [started |-> 0, token |-> NoToken, held |-> NoLock, rc |-> -1]

LastKey == CHOOSE k \in shard_list : \A j \in shard_list : j <= k
NextKey(i) == Min({k \in shard_list : k > i})

Goto(t, label) == pc' = [pc EXCEPT ![t] = label]
\* the locals of w become r; last_run_state, a field of the worker object,
\* is kept
SetLoc(w, r) ==
    loc' = [loc EXCEPT ![w] = [r EXCEPT !.last_run_state = loc[w].last_run_state]]
SetLk(t, r) == lk' = [lk EXCEPT ![t] = r]

\* s3_put_json on a shard key, with the history of the statuses recorded
PutShard(k, payload) ==
    /\ shards' = [shards EXCEPT ![k] = payload]
    /\ succRecorded' = IF payload.status = "succeeded"
                       THEN [succRecorded EXCEPT ![k] = TRUE]
                       ELSE succRecorded

\* what a step of the queue protocol leaves alone, and a step of the lock script
lockSide == <<now, lock, lk, eventVars, cfgVars>>
queueSide == <<shards, runStatus, dlq, loc, histVars>>

----------------------------------------------------------------------------
(* s3_queue_init.py main, run by QueueWorker.initialize_queue *)

\* main: shards = parse_shards(...); the script exits non-zero when it
\* raises or returns an empty list, and goes on to the shard loop otherwise
ParseShards(w) ==
    /\ pc[w] = "parse"
    /\ LET parsed == parse_shards(shards_json) IN
         IF ~parsed.ok \/ parsed.shards = <<>>
         THEN /\ Goto(w, "init_failed")
              /\ shard_list' = shard_list
         ELSE /\ Goto(w, "init_exists")
              /\ shard_list' = {parsed.shards[i] : i \in 1..Len(parsed.shards)}
    /\ UNCHANGED <<storeVars, loc, lk, eventVars, histVars, shard_max_attempts,
                   shards_json, owner, role, lock_lease_seconds,
                   lock_acquire_timeout_seconds, lock_heartbeat_seconds, env, oracle,
                   lock_item, dl>>

\* main: s3_exists on the next shard of the list
InitExists(w) ==
    /\ pc[w] = "init_exists"
    /\ LET k == NextKey(loc[w].idx) IN
         IF s3_exists(k)
         THEN /\ SetLoc(w, [loc[w] EXCEPT !.idx = IF k = LastKey THEN NoKey ELSE k])
              /\ Goto(w, IF k = LastKey THEN "urs_read" ELSE "init_exists")
         ELSE /\ loc' = loc
              /\ Goto(w, "init_put")
    /\ UNCHANGED <<lockSide, shards, runStatus, dlq, histVars>>

\* main: s3_put_json of the queued payload, after s3_exists returned False,
\* and of its bootstrap queued event (an object under a fresh key that
\* nothing reads, written in the same step)
InitPut(w) ==
    /\ pc[w] = "init_put"
    /\ LET k == NextKey(loc[w].idx) IN
         /\ PutShard(k, QueuedShard(shard_max_attempts))
         /\ bootstrapEvents' = [bootstrapEvents EXCEPT ![k] = @ + 1]
         /\ SetLoc(w, [loc[w] EXCEPT !.idx = IF k = LastKey THEN NoKey ELSE k])
         /\ Goto(w, IF k = LastKey THEN "urs_read" ELSE "init_exists")
    /\ UNCHANGED <<lockSide, runStatus, dlq, invoked>>

\* update_run_status: existing = s3_json_or_none(run_status_key)
UrsRead(w) ==
    /\ pc[w] = "urs_read"
    /\ SetLoc(w, [loc[w] EXCEPT !.existing = ReadExisting(runStatus), !.ret = "urs_put"])
    /\ Goto(w, "list")
    /\ UNCHANGED <<lockSide, shards, runStatus, dlq, histVars>>

\* update_run_status: s3_put_json of the payload; main returns, and
\* QueueWorker.run goes on to its first refresh_run_status
UrsPut(w) ==
    /\ pc[w] = "urs_put"
    /\ runStatus' = update_run_status(loc[w].existing, loc[w].snap, now)
    /\ SetLoc(w, [loc[w] EXCEPT !.snap = EmptySnap, !.existing = NoExisting,
                                !.ret = "none"])
    /\ Goto(w, "rrs_read0")
    /\ UNCHANGED <<lockSide, shards, dlq, histVars>>

----------------------------------------------------------------------------
(* load_shards / load_shard_states *)

\* list_keys(bucket, shard_prefix)
ListKeys(w) ==
    /\ pc[w] = "list"
    /\ LET keys == {k \in ShardKeys : shards[k] # NoShard} IN
         /\ SetLoc(w, [loc[w] EXCEPT !.todo = keys, !.snap = EmptySnap])
         /\ Goto(w, IF keys = {} THEN loc[w].ret ELSE "load")
    /\ UNCHANGED <<lockSide, shards, runStatus, dlq, histVars>>

\* s3_json_or_none(bucket, key) for the next key, in sorted order
LoadShard(w) ==
    /\ pc[w] = "load"
    /\ LET k == Min(loc[w].todo) IN
         /\ SetLoc(w, [loc[w] EXCEPT !.snap[k] = shards[k], !.todo = @ \ {k}])
         /\ Goto(w, IF loc[w].todo = {k} THEN loc[w].ret ELSE "load")
    /\ UNCHANGED <<lockSide, shards, runStatus, dlq, histVars>>

----------------------------------------------------------------------------
(* QueueWorker.refresh_run_status *)

\* existing = s3_json_or_none(run_status_key)
RrsRead(w) ==
    /\ pc[w] \in {"rrs_read0", "rrs_read"}
    /\ SetLoc(w, [loc[w] EXCEPT !.existing = ReadExisting(runStatus),
                                !.ret = IF pc[w] = "rrs_read0" THEN "rrs_put0"
                                        ELSE "rrs_put"])
    /\ Goto(w, "list")
    /\ UNCHANGED <<lockSide, shards, runStatus, dlq, histVars>>

\* refresh_run_status: a run_status event is emitted for payload
EmitsRunStatus(w, payload) == payload.state # loc[w].last_run_state

\* s3_put_json(run_status_key, payload), then the run_status event when the
\* state differs from last_run_state, which takes the state; run() breaks
\* out of its loop on terminal, except after the refresh made before the loop
RrsPut(w) ==
    /\ pc[w] \in {"rrs_put0", "rrs_put"}
    /\ LET payload == refresh_run_status(loc[w].existing, loc[w].snap, now) IN
         /\ runStatus' = payload
         /\ Goto(w, IF pc[w] = "rrs_put" /\ payload.terminal THEN "final" ELSE "loop")
         /\ loc' = [loc EXCEPT ![w] = [@ EXCEPT !.snap = EmptySnap,
                                                !.existing = NoExisting,
                                                !.ret = "none",
                                                !.last_run_state = payload.state]]
    /\ UNCHANGED <<lockSide, shards, dlq, histVars>>

----------------------------------------------------------------------------
(* QueueWorker.claim_shard *)

\* the candidates the for loop has not reached yet
Candidates(w) ==
    {k \in ShardKeys : /\ k > loc[w].idx
                       /\ loc[w].snap[k] # NoShard
                       /\ IsCandidate(loc[w].snap[k], loc[w].nowEpoch)}

\* top of run()'s while loop: the lock-lost check, then claim_shard takes
\* now_epoch and calls load_shards
Loop(w) ==
    /\ pc[w] = "loop"
    /\ IF lock_lost_event[w]
       THEN /\ Goto(w, "raise")
            /\ loc' = loc
       ELSE /\ SetLoc(w, [loc[w] EXCEPT !.nowEpoch = now, !.idx = NoKey, !.ret = "scan"])
            /\ Goto(w, "list")
    /\ UNCHANGED <<lockSide, shards, runStatus, dlq, histVars>>

\* the for loop finds no further candidate: claim_shard returns None and
\* run() refreshes the run status
ScanNone(w) ==
    /\ pc[w] = "scan"
    /\ Candidates(w) = {}
    /\ SetLoc(w, NoLoc)
    /\ Goto(w, "rrs_read")
    /\ UNCHANGED <<lockSide, shards, runStatus, dlq, histVars>>

\* the write made for the next candidate: failed, when it has no attempt
\* left (the loop then continues), else the tentative claim
ScanWrite(w) ==
    /\ pc[w] = "scan"
    /\ Candidates(w) # {}
    /\ LET k == Min(Candidates(w))
           token == Uuid4(w)
           exhausted == AttemptsExhausted(loc[w].snap[k])
           payload == IF exhausted THEN MarkExhausted(loc[w].snap[k])
                      ELSE TentativeClaim(loc[w].snap[k], token)
       IN
         /\ PutShard(k, payload)
         /\ SetLoc(w, [loc[w] EXCEPT !.idx = k, !.tok = IF exhausted THEN @ ELSE token])
         /\ Goto(w, IF exhausted THEN "scan" ELSE "confirm")
    /\ UNCHANGED <<lockSide, runStatus, dlq, invoked, bootstrapEvents>>

\* after the settle sleep: confirmed = s3_json_or_none(bucket, key), and the
\* checks that decide between `return key, confirmed` and `continue`
Confirm(w) ==
    /\ pc[w] = "confirm"
    /\ LET confirmed == shards[loc[w].idx] IN
         IF ClaimConfirmed(confirmed, loc[w].tok)
         THEN /\ SetLoc(w, [NoLoc EXCEPT !.cur = [key |-> loc[w].idx, shard |-> confirmed]])
              /\ Goto(w, "run_shard")
         ELSE /\ SetLoc(w, [loc[w] EXCEPT !.tok = NoToken])
              /\ Goto(w, "scan")
    /\ UNCHANGED <<lockSide, shards, runStatus, dlq, histVars>>

----------------------------------------------------------------------------
(* QueueWorker.run: execute and complete *)

\* run_shard: the external runner is invoked and returns an exit code
RunShard(w) ==
    /\ pc[w] = "run_shard"
    /\ invoked[loc[w].cur.key] < Max2(MaxInvocations, shard_max_attempts)
    /\ \E e \in ExitCodes : SetLoc(w, [loc[w] EXCEPT !.exitCode = e])
    /\ invoked' = [invoked EXCEPT ![loc[w].cur.key] = @ + 1]
    /\ Goto(w, "complete")
    /\ UNCHANGED <<lockSide, shards, runStatus, dlq, succRecorded, bootstrapEvents>>

\* complete_shard: the s3_put_json of the shard object
CompleteShard(w) ==
    /\ pc[w] = "complete"
    /\ LET k == loc[w].cur.key
           payload == complete_shard(loc[w].cur.shard, loc[w].exitCode, now)
       IN
         /\ PutShard(k, payload)
         /\ IF payload.status \in {"failed", "timed_out"}
            THEN /\ Goto(w, "dlq")
                 /\ loc' = loc
            ELSE /\ Goto(w, "rrs_read")
                 /\ SetLoc(w, NoLoc)
    /\ UNCHANGED <<lockSide, runStatus, dlq, invoked, bootstrapEvents>>

\* complete_shard: self.dlq(shard, exit_code, status) after a terminal failure
Dlq(w) ==
    /\ pc[w] = "dlq"
    /\ LET k == loc[w].cur.key
           entry == DlqEntry(k, loc[w].cur.shard, loc[w].exitCode,
                             terminal_status(loc[w].exitCode))
       IN
         dlq' = {d \in dlq : ~(d.shard_key = k /\ d.attempt = entry.attempt)} \cup {entry}
    /\ SetLoc(w, NoLoc)
    /\ Goto(w, "rrs_read")
    /\ UNCHANGED <<lockSide, shards, runStatus, histVars>>

\* some retrying shard is not due yet
RetryPending ==
    \E k \in ShardKeys : /\ shards[k].status = "retrying"
                         /\ now < shards[k].retry_available_at_epoch

\* the clock advances; it is followed for MaxTicks ticks, and beyond them for
\* as long as a retry is pending
Tick ==
    /\ now < MaxTicks * TickSeconds \/ RetryPending
    /\ now' = now + TickSeconds
    /\ UNCHANGED <<lock, queueStore, pc, loc, lk, eventVars, cfgVars, histVars>>

----------------------------------------------------------------------------
(* s3_lock.py: the commands, one step per object-store call *)

\* where a thread goes when its lock command exits with `code`:
\*   worker     acquire_lock raises on rc != 0 (before run()'s try);
\*              release_lock only logs, and run() returns through its finally
\*   heartbeat  heartbeat_loop waits again on rc = 0, signals and returns otherwise
\*   cli        back to the shell
AfterCommand(t, cmd, code) ==
    IF role[t] = "cli" THEN "idle"
    ELSE IF role[t] = "heartbeat" THEN (IF code = 0 THEN "hb_wait" ELSE "hb_done")
    ELSE IF cmd = "acquire" THEN (IF code = 0 THEN "start_heartbeat" ELSE "failed")
    ELSE "stop_heartbeat"

\* sys.exit(code) of the lock script, as its caller sees it
Exit(t, cmd, code, held_) ==
    /\ pc' = [pc EXCEPT ![t] = AfterCommand(t, cmd, code)]
    /\ SetLk(t, [NoLk EXCEPT !.rc = code, !.held = held_])
    /\ lock_lost_event' =
         IF role[t] = "heartbeat" /\ code # 0
         THEN [lock_lost_event EXCEPT ![WorkerOf(t)] = TRUE]
         ELSE lock_lost_event

\* cmd_acquire: lock = s3_json_or_none(...); wait, time out, or go on to write
AcqRead(t) ==
    /\ pc[t] = "acq_read"
    /\ IF HeldByOther(lock, owner[t], now)
       THEN IF AcquireTimedOut(lk[t].started, now)
            THEN Exit(t, "acquire", 1, NoLock)
            ELSE UNCHANGED <<pc, lk, lock_lost_event>>
       ELSE /\ Goto(t, "acq_put")
            /\ UNCHANGED <<lk, lock_lost_event>>
    /\ UNCHANGED <<now, lock, queueSide, stop_event, cfgVars>>

\* cmd_acquire: the `aws s3 cp` of the read exits non-zero for a reason other
\* than absence; s3_json_or_none catches CalledProcessError and returns None,
\* and cmd_acquire goes on as it does for a missing lock
AcqReadFails(t) ==
    /\ pc[t] = "acq_read"
    /\ LET read == NoLock IN
         IF HeldByOther(read, owner[t], now)
         THEN UNCHANGED <<pc, lk, lock_lost_event>>
         ELSE /\ Goto(t, "acq_put")
              /\ UNCHANGED <<lk, lock_lost_event>>
    /\ UNCHANGED <<now, lock, queueSide, stop_event, cfgVars>>

\* cmd_acquire: s3_put_json of build_payload(...)
AcqPut(t) ==
    /\ pc[t] = "acq_put"
    /\ LET token == Uuid4(t) IN
         /\ lock' = build_payload(owner[t], lock_lease_seconds, token, now)
         /\ SetLk(t, [lk[t] EXCEPT !.token = token])
    /\ Goto(t, "acq_confirm")
    /\ UNCHANGED <<now, queueSide, eventVars, cfgVars>>

\* cmd_acquire: after the settle sleep, the re-read and its three outcomes
AcqConfirm(t) ==
    /\ pc[t] = "acq_confirm"
    /\ IF AcquireConfirmed(lock, owner[t], lk[t].token)
       THEN Exit(t, "acquire", 0, lock)
       ELSE IF AcquireTimedOut(lk[t].started, now)
       THEN Exit(t, "acquire", 1, NoLock)
       ELSE /\ Goto(t, "acq_read")
            /\ SetLk(t, [lk[t] EXCEPT !.token = NoToken])
            /\ lock_lost_event' = lock_lost_event
    /\ UNCHANGED <<now, lock, queueSide, stop_event, cfgVars>>

\* cmd_heartbeat: the lock read and the checks before the write
HbRead(t) ==
    /\ pc[t] = "hb_read"
    /\ IF lock = NoLock \/ HeartbeatRefused(lock, owner[t], now)
       THEN Exit(t, "heartbeat", 2, lk[t].held)
       ELSE /\ Goto(t, "hb_put")
            /\ UNCHANGED <<lk, lock_lost_event>>
    /\ UNCHANGED <<now, lock, queueSide, stop_event, cfgVars>>

\* cmd_heartbeat: s3_put_json of build_payload(...)
HbPut(t) ==
    /\ pc[t] = "hb_put"
    /\ lock' = build_payload(owner[t], lock_lease_seconds, Uuid4(t), now)
    /\ Goto(t, "hb_confirm")
    /\ UNCHANGED <<now, queueSide, lk, eventVars, cfgVars>>

\* cmd_heartbeat: the re-read after the write
HbConfirm(t) ==
    /\ pc[t] = "hb_confirm"
    /\ Exit(t, "heartbeat", IF lock = NoLock \/ lock.owner # owner[t] THEN 2 ELSE 0,
            lk[t].held)
    /\ UNCHANGED <<now, lock, queueSide, stop_event, cfgVars>>

\* a release that reports a missing lock as a failure
RelReadMissingFails(t) ==
    /\ pc[t] = "rel_read"
    /\ IF lock = NoLock THEN Exit(t, "release", 1, NoLock)
       ELSE IF ReleaseRefused(lock, owner[t], now) THEN Exit(t, "release", 1, NoLock)
       ELSE /\ Goto(t, "rel_delete")
            /\ UNCHANGED <<lk, lock_lost_event>>
    /\ UNCHANGED <<now, lock, queueSide, stop_event, cfgVars>>

\* cmd_release: the lock read and the checks before the delete
RelRead(t) ==
    /\ pc[t] = "rel_read"
    /\ IF lock = NoLock THEN Exit(t, "release", 0, NoLock)
       ELSE IF ReleaseRefused(lock, owner[t], now) THEN Exit(t, "release", 1, NoLock)
       ELSE /\ Goto(t, "rel_delete")
            /\ UNCHANGED <<lk, lock_lost_event>>
    /\ UNCHANGED <<now, lock, queueSide, stop_event, cfgVars>>

\* cmd_release: s3_delete
RelDelete(t) ==
    /\ pc[t] = "rel_delete"
    /\ lock' = NoLock
    /\ Exit(t, "release", 0, NoLock)
    /\ UNCHANGED <<now, queueSide, stop_event, cfgVars>>

\* main of s3_lock.py, called from a shell: any of the three commands
Invoke(t) ==
    /\ pc[t] = "idle"
    /\ role[t] = "cli"
    /\ \E cmd \in {"acq_read", "hb_read", "rel_read"} :
         /\ Goto(t, cmd)
         /\ SetLk(t, [NoLk EXCEPT !.started = IF cmd = "acq_read" THEN now ELSE 0,
                                  !.held = IF cmd = "hb_read" THEN lk[t].held ELSE NoLock])
    /\ UNCHANGED <<now, lock, queueSide, eventVars, cfgVars>>

----------------------------------------------------------------------------
(* QueueWorker.run outside the claim/execute/complete cycle, and the
   heartbeat thread *)

\* start_heartbeat, then initialize_queue starts s3_queue_init.py
StartHeartbeat(w) ==
    /\ pc[w] = "start_heartbeat"
    /\ pc' = [pc EXCEPT ![w] = "init_exists", ![Hb(w)] = "hb_wait"]
    /\ UNCHANGED <<storeVars, loc, lk, eventVars, cfgVars, histVars>>

\* heartbeat_loop: stop_event.wait(lock_heartbeat_seconds) returns, with the
\* event set (the loop ends) or on its timeout (the lock script is called).
\* The thread is a daemon: it makes no further call once the process has exited.
HbWake(w) ==
    /\ pc[Hb(w)] = "hb_wait"
    /\ pc[w] \notin {"returned", "failed"}
    /\ Goto(Hb(w), IF stop_event[w] THEN "hb_done" ELSE "hb_read")
    /\ UNCHANGED <<storeVars, loc, lk, eventVars, cfgVars, histVars>>

\* after the loop: final_status = s3_json_or_none(run_status_key); the lock is
\* released only when it is terminal
Final(w) ==
    /\ pc[w] = "final"
    /\ Goto(w, IF runStatus.terminal THEN "rel_read" ELSE "stop_heartbeat")
    /\ UNCHANGED <<storeVars, loc, lk, eventVars, cfgVars, histVars>>

\* finally: stop_heartbeat sets the stop event (on return and on raise)
StopHeartbeat(w) ==
    /\ pc[w] \in {"stop_heartbeat", "raise"}
    /\ stop_event' = [stop_event EXCEPT ![w] = TRUE]
    /\ Goto(w, IF pc[w] = "raise" THEN "join_failed" ELSE "join")
    /\ UNCHANGED <<storeVars, loc, lk, lock_lost_event, cfgVars, histVars>>

\* stop_heartbeat: heartbeat_thread.join(timeout=5.0) returns, the thread
\* ended or not; run() returns 0, or main() returns 1 after the raise
Join(w) ==
    /\ pc[w] \in {"join", "join_failed"}
    /\ Goto(w, IF pc[w] = "join" THEN "returned" ELSE "failed")
    /\ UNCHANGED <<storeVars, loc, lk, eventVars, cfgVars, histVars>>

\* s3_put_json: `aws s3api put-object` exits non-zero and check_call raises
\* CalledProcessError (as does the check_call of the initializer script when
\* one of its puts fails).  Nothing is written; no caller in claim_shard,
\* complete_shard, dlq or refresh_run_status catches, so the exception leaves
\* run() through its finally.
PutFails(w) ==
    /\ pc[w] \in {"init_put", "urs_put", "rrs_put0", "rrs_put", "scan", "complete", "dlq"}
    /\ pc[w] = "scan" => Candidates(w) # {}
    /\ Goto(w, "raise")
    /\ SetLoc(w, NoLoc)
    /\ UNCHANGED <<lockSide, shards, runStatus, dlq, histVars>>

----------------------------------------------------------------------------
(* benchmark_lock.py: the DynamoDB lock, one step per call to the table *)

NoItem == [owner_run_id |-> 0, expires_at |-> 0]

NoDl == [cmd |-> "none", lease_seconds |-> 0, deadline_epoch |-> -1, now_epoch |-> 0,
         attempt |-> 0, rc |-> -1]

\* a put condition that admits an item expiring at :now
PutConditionInclusive(it, now_epoch) == it = NoItem \/ it.expires_at <= now_epoch

\* put-item: attribute_not_exists(lock_name) OR expires_at < :now
PutCondition(it, now_epoch) == it = NoItem \/ it.expires_at < now_epoch

\* delete-item: owner_run_id = :owner
DeleteCondition(it, own) == it # NoItem /\ it.owner_run_id = own

\* main: a shell calls acquire or release; acquire_lock validates the lease
\* (ValueError, exit 1) and computes deadline_epoch
DlInvoke(t, cmd, lease, wait_timeout_seconds) ==
    /\ pc[t] = "idle"
    /\ IF cmd = "acquire" /\ lease < MinDynamoLeaseSeconds
       THEN /\ dl' = [dl EXCEPT ![t] = [NoDl EXCEPT !.cmd = cmd, !.rc = 1]]
            /\ pc' = pc
       ELSE /\ dl' = [dl EXCEPT ![t] =
                        [NoDl EXCEPT !.cmd = cmd, !.lease_seconds = lease,
                                     !.deadline_epoch =
                                         IF cmd = "acquire" /\ wait_timeout_seconds > 0
                                         THEN now + wait_timeout_seconds ELSE -1]]
            /\ Goto(t, IF cmd = "acquire" THEN "dl_loop" ELSE "dl_delete")
    /\ UNCHANGED <<storeVars, loc, lk, eventVars, histVars, shard_max_attempts,
                   shards_json, shard_list, owner, role, lock_lease_seconds,
                   lock_acquire_timeout_seconds, lock_heartbeat_seconds, env, oracle,
                   lock_item>>

\* acquire_lock, top of the loop: now_epoch is taken and the deadline tested
\* (TimeoutError, exit 1)
DlLoop(t) ==
    /\ pc[t] = "dl_loop"
    /\ IF dl[t].deadline_epoch # -1 /\ now >= dl[t].deadline_epoch
       THEN /\ dl' = [dl EXCEPT ![t].rc = 1]
            /\ Goto(t, "idle")
       ELSE /\ dl' = [dl EXCEPT ![t].now_epoch = now]
            /\ Goto(t, "dl_put")
    /\ UNCHANGED <<storeVars, loc, lk, eventVars, histVars, shard_max_attempts,
                   shards_json, shard_list, owner, role, lock_lease_seconds,
                   lock_acquire_timeout_seconds, lock_heartbeat_seconds, env, oracle,
                   lock_item>>

\* acquire_lock: the conditional put-item; on ConditionalCheckFailed the
\* attempt is counted and, after the sleep, the loop starts again
DlPut(t) ==
    /\ pc[t] = "dl_put"
    /\ IF PutCondition(lock_item, dl[t].now_epoch)
       THEN /\ lock_item' = [owner_run_id |-> owner[t],
                        expires_at |-> dl[t].now_epoch + dl[t].lease_seconds]
            /\ dl' = [dl EXCEPT ![t].rc = 0]
            /\ Goto(t, "idle")
       ELSE /\ dl[t].attempt < MaxLockAttempts
            /\ lock_item' = lock_item
            /\ dl' = [dl EXCEPT ![t].attempt = @ + 1]
            /\ Goto(t, "dl_loop")
    /\ UNCHANGED <<storeVars, loc, lk, eventVars, histVars, shard_max_attempts,
                   shards_json, shard_list, owner, role, lock_lease_seconds,
                   lock_acquire_timeout_seconds, lock_heartbeat_seconds, env, oracle>>

\* release_lock: the conditional delete-item; ConditionalCheckFailed counts
\* as released
DlDelete(t) ==
    /\ pc[t] = "dl_delete"
    /\ lock_item' = IF DeleteCondition(lock_item, owner[t]) THEN NoItem ELSE lock_item
    /\ dl' = [dl EXCEPT ![t].rc = 0]
    /\ Goto(t, "idle")
    /\ UNCHANGED <<storeVars, loc, lk, eventVars, histVars, shard_max_attempts,
                   shards_json, shard_list, owner, role, lock_lease_seconds,
                   lock_acquire_timeout_seconds, lock_heartbeat_seconds, env, oracle>>

\* ensure_table enables time-to-live on expires_at: the table may drop an
\* item whose expires_at has passed
TtlExpire ==
    /\ lock_item # NoItem
    /\ lock_item.expires_at < now
    /\ lock_item' = NoItem
    /\ UNCHANGED <<storeVars, pc, loc, lk, eventVars, histVars, shard_max_attempts,
                   shards_json, shard_list, owner, role, lock_lease_seconds,
                   lock_acquire_timeout_seconds, lock_heartbeat_seconds, env, oracle,
                   dl>>

\* time.time() advances by half a minimal lease
LeaseTick ==
    /\ now < MaxLeaseTicks * (MinDynamoLeaseSeconds \div 2)
    /\ now' = now + MinDynamoLeaseSeconds \div 2
    /\ UNCHANGED <<lock, queueStore, pc, loc, lk, eventVars, cfgVars, histVars>>

----------------------------------------------------------------------------
(* QueueWorker.__init__ *)

\* an environment variable that is unset, empty or not an integer
Unset == [ok |-> FALSE, value |-> 0]

NoEnv == [SCFUZZBENCH_LOCK_LEASE_SECONDS |-> Unset,
          SCFUZZBENCH_LOCK_HEARTBEAT_SECONDS |-> Unset]

\* env_int(name, default)
env_int(raw, default) == IF raw.ok THEN raw.value ELSE default

\* the two lock settings the constructor reads from the environment
Construct(w) ==
    /\ pc[w] = "new"
    /\ lock_lease_seconds' =
          Max2(env_int(env.SCFUZZBENCH_LOCK_LEASE_SECONDS, DefaultLeaseSeconds),
               MinLeaseSeconds)
    /\ lock_heartbeat_seconds' =
          Max2(env_int(env.SCFUZZBENCH_LOCK_HEARTBEAT_SECONDS, DefaultHeartbeatSeconds),
               MinHeartbeatSeconds)
    /\ Goto(w, "acq_read")
    /\ UNCHANGED <<storeVars, loc, lk, eventVars, histVars, shard_max_attempts,
                   shards_json, shard_list, owner, role,
                   lock_acquire_timeout_seconds, env, oracle, lock_item, dl>>

----------------------------------------------------------------------------
(* run_completion.py *)

\* manifest.json holds timeout_hours as a JSON number, which float() makes a
\* float: a timeout_hours of n stands here for n / HoursDenominator hours,
\* so that the unit is half a second
HoursDenominator == 2 * SecondsPerHour

TERMINAL_STATES == {"succeeded", "failed", "timed_out", "completed"}

\* s3_json_or_none of a manifest key: None, or the object, with or without a
\* timeout_hours that float() accepts
NoManifest == [present |-> FALSE, has_timeout_hours |-> FALSE, timeout_hours |-> 0]

NoCompletion == [complete |-> FALSE, reason |-> "none", status_terminal |-> FALSE]

NoOracle ==
    [run_id |-> [ok |-> FALSE, value |-> 0], manifest |-> NoManifest,
     legacy_manifest |-> NoManifest, grace_seconds |-> 0, called |-> FALSE,
     completion |-> NoCompletion]

\* int() of the float num / den: truncation towards zero
int(num, den) == IF num >= 0 THEN num \div den ELSE -((-num) \div den)

\* safe_float(manifest.get("timeout_hours", 24), 24.0)
safe_float(manifest) ==
    IF manifest.has_timeout_hours THEN manifest.timeout_hours
    ELSE DefaultTimeoutHours * HoursDenominator

\* check_run_completion: the Completion returned for the objects read
check_run_completion(status, manifest_, legacy, run_id, grace_seconds, now_) ==
    LET manifest == IF manifest_.present THEN manifest_ ELSE legacy
        status_terminal ==
            /\ status # NoRunStatus
            /\ (status.terminal \/ status.state \in TERMINAL_STATES)
        deadline == run_id.value
                      + int(safe_float(manifest) * SecondsPerHour, HoursDenominator)
                      + grace_seconds
    IN  IF status_terminal
        THEN [complete |-> TRUE, reason |-> "status_terminal", status_terminal |-> TRUE]
        ELSE IF ~run_id.ok
        THEN [complete |-> FALSE, reason |-> "invalid_run_id", status_terminal |-> FALSE]
        ELSE IF ~manifest.present
        THEN [complete |-> FALSE, reason |-> "manifest_missing", status_terminal |-> FALSE]
        ELSE [complete |-> now_ >= deadline,
              reason |-> IF now_ >= deadline THEN "legacy_deadline_met"
                         ELSE "legacy_deadline_pending",
              status_terminal |-> FALSE]

\* cmd_check: the three reads and the decision; nothing is written
CheckRunCompletion ==
    /\ ~oracle.called
    /\ oracle' = [oracle EXCEPT
           !.called = TRUE,
           !.completion = check_run_completion(runStatus, oracle.manifest,
                              oracle.legacy_manifest, oracle.run_id,
                              oracle.grace_seconds, now)]
    /\ UNCHANGED <<storeVars, pc, loc, lk, eventVars, histVars, shard_max_attempts,
                   shards_json, shard_list, owner, role, lock_lease_seconds,
                   lock_acquire_timeout_seconds, lock_heartbeat_seconds, env,
                   lock_item, dl>>

----------------------------------------------------------------------------
(* Initial states *)

InitStore ==
    /\ now = 0
    /\ lock = NoLock
    /\ shards = [k \in ShardKeys |-> NoShard]
    /\ runStatus = NoRunStatus
    /\ dlq = {}

InitLocals ==
    /\ loc = [w \in Workers |-> NoLoc]
    /\ lk = [t \in Threads |-> NoLk]
    /\ lock_lost_event = [w \in Workers |-> FALSE]
    /\ stop_event = [w \in Workers |-> FALSE]
    /\ invoked = [k \in ShardKeys |-> 0]
    /\ succRecorded = [k \in ShardKeys |-> FALSE]
    /\ bootstrapEvents = [k \in ShardKeys |-> 0]
    /\ oracle = NoOracle
    /\ env = NoEnv
    /\ lock_heartbeat_seconds = DefaultHeartbeatSeconds
    /\ lock_item = NoItem
    /\ dl = [t \in Threads |-> NoDl]

----------------------------------------------------------------------------
(* The lock script alone: two shells, one owner each, calling its commands *)

\* --lease-seconds of a shell call: the script accepts any lease >= 1
LeaseChoices == {MinLeaseSeconds \div 2, MinLeaseSeconds, 2 * MinLeaseSeconds}
TimeoutChoices == {0, 30}

InitLock ==
    /\ InitStore
    /\ InitLocals
    /\ shard_max_attempts = 1
    /\ shards_json = ShardsJsonOf(ShardKeys)
    /\ shard_list = ShardKeys
    /\ owner = [t \in Threads |-> WorkerOf(t)]
    /\ role = [t \in Threads |-> IF t \in Workers THEN "cli" ELSE "off"]
    /\ pc = [t \in Threads |-> IF t \in Workers THEN "idle" ELSE "hb_off"]
    /\ lock_lease_seconds \in LeaseChoices
    /\ lock_acquire_timeout_seconds \in TimeoutChoices

NextLock ==
    \/ \E t \in Workers : Invoke(t)
    \/ \E t \in Workers : AcqRead(t)
    \/ \E t \in Workers : AcqPut(t)
    \/ \E t \in Workers : AcqConfirm(t)
    \/ \E t \in Workers : HbRead(t)
    \/ \E t \in Workers : HbPut(t)
    \/ \E t \in Workers : HbConfirm(t)
    \/ \E t \in Workers : RelRead(t)
    \/ \E t \in Workers : RelDelete(t)
    \/ Tick

SpecLock == InitLock /\ [][NextLock]_vars

\* the same two shells over an object store whose reads may fail
NextLockFault ==
    \/ NextLock
    \/ \E t \in Workers : AcqReadFails(t)

SpecLockFault == InitLock /\ [][NextLockFault]_vars

----------------------------------------------------------------------------
(* The queue alone: the workers of one run, which share the lock owner and
   have all passed acquire_lock, from initialize_queue on *)

InitQueue ==
    /\ InitStore
    /\ InitLocals
    /\ shard_max_attempts \in 1..MaxShardMaxAttempts
    /\ shards_json = ShardsJsonOf({1})
    /\ shard_list = {1}
    /\ owner = [t \in Threads |-> 1]
    /\ role = [t \in Threads |-> IF t \in Workers THEN "worker" ELSE "off"]
    /\ pc = [t \in Threads |-> IF t \in Workers THEN "init_exists" ELSE "hb_off"]
    /\ lock_lease_seconds = MinLeaseSeconds
    /\ lock_acquire_timeout_seconds = 0

QueueStep(w) ==
    \/ InitExists(w)
    \/ InitPut(w)
    \/ UrsRead(w)
    \/ UrsPut(w)
    \/ ListKeys(w)
    \/ LoadShard(w)
    \/ RrsRead(w)
    \/ RrsPut(w)
    \/ Loop(w)
    \/ ScanNone(w)
    \/ ScanWrite(w)
    \/ Confirm(w)
    \/ RunShard(w)
    \/ CompleteShard(w)
    \/ Dlq(w)

NextQueue ==
    \/ \E w \in Workers : QueueStep(w)
    \/ Tick

SpecQueue == InitQueue /\ [][NextQueue]_vars


----------------------------------------------------------------------------
(* One worker from acquire_lock to the return of run(), with its heartbeat
   thread, next to a shell of another owner calling the lock script *)

TheWorker == Min(Workers)
Rival == CHOOSE t \in Workers : t # TheWorker

InitWorker ==
    /\ InitStore
    /\ InitLocals
    /\ shard_max_attempts \in 1..MaxShardMaxAttempts
    /\ shards_json = ShardsJsonOf({1})
    /\ shard_list = {1}
    /\ owner = [t \in Threads |-> WorkerOf(t)]
    /\ role = [t \in Threads |-> IF t = TheWorker THEN "worker"
                                 ELSE IF t = Hb(TheWorker) THEN "heartbeat"
                                 ELSE IF t = Rival THEN "cli" ELSE "off"]
    /\ pc = [t \in Threads |-> IF t = TheWorker THEN "acq_read"
                               ELSE IF t = Rival THEN "idle" ELSE "hb_off"]
    /\ lock_lease_seconds = MinLeaseSeconds
    /\ lock_acquire_timeout_seconds = 0

AcquireStep(t) == AcqRead(t) \/ AcqPut(t) \/ AcqConfirm(t)
HeartbeatStep(t) == HbRead(t) \/ HbPut(t) \/ HbConfirm(t)
ReleaseStep(t) == RelRead(t) \/ RelDelete(t)

LockStep(t) == AcquireStep(t) \/ HeartbeatStep(t) \/ ReleaseStep(t)

WorkerStep(w) ==
    \/ StartHeartbeat(w)
    \/ QueueStep(w)
    \/ Final(w)
    \/ StopHeartbeat(w)
    \/ Join(w)

NextWorker ==
    \/ WorkerStep(TheWorker)
    \/ HbWake(TheWorker)
    \/ \E t \in {TheWorker, Hb(TheWorker), Rival} : LockStep(t)
    \/ Invoke(Rival)
    \/ Tick

SpecWorker == InitWorker /\ [][NextWorker]_vars

----------------------------------------------------------------------------
(* One worker alone, scheduled fairly: the main thread keeps running, the lock
   script it waits for returns, and time passes.  The heartbeat thread is
   started and never reports a failure: its renewals change the lock object
   alone, and are not followed here. *)

InitLive ==
    /\ InitStore
    /\ InitLocals
    /\ shard_max_attempts \in 1..MaxShardMaxAttempts
    /\ shards_json = ShardsJsonOf(ShardKeys)
    /\ shard_list = ShardKeys
    /\ owner = [t \in Threads |-> WorkerOf(t)]
    /\ role = [t \in Threads |-> IF t = TheWorker THEN "worker"
                                 ELSE IF t = Hb(TheWorker) THEN "heartbeat" ELSE "off"]
    /\ pc = [t \in Threads |-> IF t = TheWorker THEN "acq_read" ELSE "hb_off"]
    /\ lock_lease_seconds = MinLeaseSeconds
    /\ lock_acquire_timeout_seconds = 0

MainStep ==
    \/ AcquireStep(TheWorker)
    \/ WorkerStep(TheWorker)
    \/ ReleaseStep(TheWorker)

NextLive ==
    \/ MainStep
    \/ Tick

SpecLive ==
    InitLive /\ [][NextLive]_vars /\ WF_vars(MainStep) /\ WF_vars(Tick)

----------------------------------------------------------------------------
(* One worker alone over an object store whose writes may fail *)

NextFault ==
    \/ MainStep
    \/ PutFails(TheWorker)
    \/ Tick

SpecFault == InitLive /\ [][NextFault]_vars

----------------------------------------------------------------------------
(* One worker and one shard with enough attempts for the retry delay to
   reach its cap *)

InitBackoff ==
    /\ InitStore
    /\ InitLocals
    /\ shard_max_attempts = MaxBackoffAttempts
    /\ shards_json = ShardsJsonOf({Min(ShardKeys)})
    /\ shard_list = {Min(ShardKeys)}
    /\ owner = [t \in Threads |-> WorkerOf(t)]
    /\ role = [t \in Threads |-> IF t = TheWorker THEN "worker"
                                 ELSE IF t = Hb(TheWorker) THEN "heartbeat" ELSE "off"]
    /\ pc = [t \in Threads |-> IF t = TheWorker THEN "acq_read" ELSE "hb_off"]
    /\ lock_lease_seconds = MinLeaseSeconds
    /\ lock_acquire_timeout_seconds = 0

SpecBackoff == InitBackoff /\ [][NextLive]_vars

----------------------------------------------------------------------------
(* s3_queue_init.py alone, called on an empty run namespace with any
   decoded shard list *)

InitScript ==
    /\ InitStore
    /\ InitLocals
    /\ shard_max_attempts \in 1..MaxShardMaxAttempts
    /\ shards_json \in ShardsJsonValues
    /\ shard_list = {}
    /\ owner = [t \in Threads |-> WorkerOf(t)]
    /\ role = [t \in Threads |-> IF t = TheWorker THEN "cli" ELSE "off"]
    /\ pc = [t \in Threads |-> IF t = TheWorker THEN "parse"
                               ELSE IF t \in Workers THEN "idle" ELSE "hb_off"]
    /\ lock_lease_seconds = MinLeaseSeconds
    /\ lock_acquire_timeout_seconds = 0

NextScript ==
    \/ ParseShards(TheWorker)
    \/ InitExists(TheWorker)
    \/ InitPut(TheWorker)
    \/ UrsRead(TheWorker)
    \/ ListKeys(TheWorker)
    \/ LoadShard(TheWorker)
    \/ UrsPut(TheWorker)

SpecScript == InitScript /\ [][NextScript]_vars

----------------------------------------------------------------------------
(* One worker started on a run namespace that an earlier generation of
   workers has left behind: each shard object is absent, queued, or in any
   tracked state after 1..max_attempts attempts, a retrying one possibly with
   no attempt left *)

PriorShard(st, a, m) ==
    [status |-> st, attempt |-> a, max_attempts |-> m,
     claim_token |-> IF st = "running" THEN Uuid4(Rival) ELSE NoToken,
     retry_available_at_epoch |-> 0,
     last_exit_code |-> CASE st = "succeeded" -> 0
                          [] st = "timed_out" -> TimeoutExitCode
                          [] st \in {"failed", "retrying"} -> DefaultFailedExitCode
                          [] OTHER -> -1]

PriorShards(m) ==
    {NoShard, PriorShard("queued", 0, m)}
    \cup {PriorShard(st, a, m) : st \in Statuses \ {"queued"}, a \in 1..m}

InitRerun ==
    /\ now = 0
    /\ lock = NoLock
    /\ runStatus = NoRunStatus
    /\ InitLocals
    /\ shard_max_attempts \in 1..MaxShardMaxAttempts
    /\ shards \in [ShardKeys -> PriorShards(shard_max_attempts)]
    /\ dlq = {DlqEntry(k, shards[k], shards[k].last_exit_code, shards[k].status) :
                k \in {j \in ShardKeys : shards[j].status \in {"failed", "timed_out"}}}
    /\ shards_json = ShardsJsonOf(ShardKeys)
    /\ shard_list = ShardKeys
    /\ owner = [t \in Threads |-> WorkerOf(t)]
    /\ role = [t \in Threads |-> IF t = TheWorker THEN "worker" ELSE "off"]
    /\ pc = [t \in Threads |-> IF t = TheWorker THEN "init_exists"
                               ELSE IF t \in Workers THEN "idle" ELSE "hb_off"]
    /\ lock_lease_seconds = MinLeaseSeconds
    /\ lock_acquire_timeout_seconds = 0

NextRerun ==
    \/ QueueStep(TheWorker)
    \/ Tick

SpecRerun == InitRerun /\ [][NextRerun]_vars

----------------------------------------------------------------------------
(* The constructor of one worker, over the values the two lock settings can
   have in its environment *)

EnvLeaseChoices ==
    {Unset} \cup {[ok |-> TRUE, value |-> v] :
                    v \in {0, MinLeaseSeconds - 1, MinLeaseSeconds,
                           3 * MinHeartbeatSeconds, 3 * DefaultHeartbeatSeconds,
                           DefaultLeaseSeconds, 2 * DefaultLeaseSeconds}}

EnvHeartbeatChoices ==
    {Unset} \cup {[ok |-> TRUE, value |-> v] :
                    v \in {0, MinLeaseSeconds \div 3, MinHeartbeatSeconds,
                           MinHeartbeatSeconds + 1, DefaultHeartbeatSeconds,
                           DefaultLeaseSeconds \div 3, DefaultLeaseSeconds}}

InitConfig ==
    /\ InitStore
    /\ loc = [w \in Workers |-> NoLoc]
    /\ lk = [t \in Threads |-> NoLk]
    /\ lock_lost_event = [w \in Workers |-> FALSE]
    /\ stop_event = [w \in Workers |-> FALSE]
    /\ invoked = [k \in ShardKeys |-> 0]
    /\ succRecorded = [k \in ShardKeys |-> FALSE]
    /\ bootstrapEvents = [k \in ShardKeys |-> 0]
    /\ oracle = NoOracle
    /\ lock_item = NoItem
    /\ dl = [t \in Threads |-> NoDl]
    /\ shard_max_attempts = 1
    /\ shards_json = ShardsJsonOf(ShardKeys)
    /\ shard_list = ShardKeys
    /\ owner = [t \in Threads |-> WorkerOf(t)]
    /\ role = [t \in Threads |-> IF t = TheWorker THEN "worker" ELSE "off"]
    /\ pc = [t \in Threads |-> IF t = TheWorker THEN "new"
                               ELSE IF t \in Workers THEN "idle" ELSE "hb_off"]
    /\ lock_acquire_timeout_seconds = 0
    /\ env \in [SCFUZZBENCH_LOCK_LEASE_SECONDS : EnvLeaseChoices,
                 SCFUZZBENCH_LOCK_HEARTBEAT_SECONDS : EnvHeartbeatChoices]
    /\ lock_lease_seconds = 0
    /\ lock_heartbeat_seconds = 0

NextConfig == Construct(TheWorker)

SpecConfig == InitConfig /\ [][NextConfig]_vars

----------------------------------------------------------------------------
(* benchmark_lock.py alone: two workflow runs, one owner_run_id each, calling
   acquire and release on one lock_name *)

DynamoLeaseChoices == {MinDynamoLeaseSeconds - 1, MinDynamoLeaseSeconds}
WaitTimeoutChoices == {0, MinDynamoLeaseSeconds}

InitDynamo ==
    /\ InitStore
    /\ InitLocals
    /\ shard_max_attempts = 1
    /\ shards_json = ShardsJsonOf(ShardKeys)
    /\ shard_list = ShardKeys
    /\ owner = [t \in Threads |-> WorkerOf(t)]
    /\ role = [t \in Threads |-> IF t \in Workers THEN "cli" ELSE "off"]
    /\ pc = [t \in Threads |-> IF t \in Workers THEN "idle" ELSE "hb_off"]
    /\ lock_lease_seconds = MinLeaseSeconds
    /\ lock_acquire_timeout_seconds = 0

NextDynamo ==
    \/ \E t \in Workers, cmd \in {"acquire", "release"},
          lease \in DynamoLeaseChoices, w \in WaitTimeoutChoices :
            DlInvoke(t, cmd, lease, w)
    \/ \E t \in Workers : DlLoop(t)
    \/ \E t \in Workers : DlPut(t)
    \/ \E t \in Workers : DlDelete(t)
    \/ TtlExpire
    \/ LeaseTick

SpecDynamo == InitDynamo /\ [][NextDynamo]_vars

----------------------------------------------------------------------------
(* run_completion.py check alone, asked once about a run whose objects are
   any of those a run can have left in the bucket *)

\* status/run.json: absent, as the queue writes it, or as a run that did not
\* go through the queue left it (a state and no terminal field)
StatusChoices ==
    {NoRunStatus}
      \cup {[NoRunStatus EXCEPT !.state = "running", !.created_at = 0]}
      \cup {[NoRunStatus EXCEPT !.state = st, !.terminal = TRUE,
                                !.created_at = 0, !.completed_at = 0]
              : st \in {"succeeded", "failed"}}
      \cup {[NoRunStatus EXCEPT !.state = st] : st \in {"completed", "timed_out"}}

\* --run-id: text int() rejects, or an epoch
RunIdChoices ==
    {[ok |-> FALSE, value |-> 0]} \cup {[ok |-> TRUE, value |-> v] : v \in {0, 100}}

\* manifest.json: absent, without timeout_hours, or with one of 0, 1/7200
\* or 1 hours
ManifestChoices ==
    {NoManifest, [NoManifest EXCEPT !.present = TRUE]}
      \cup {[present |-> TRUE, has_timeout_hours |-> TRUE, timeout_hours |-> th]
              : th \in {0, 1, HoursDenominator}}

LegacyManifestChoices ==
    {NoManifest, [present |-> TRUE, has_timeout_hours |-> TRUE, timeout_hours |-> 0]}

GraceChoices == {0, DefaultGraceSeconds}

\* the clock at the call: within a second of a deadline of the choices above
NowChoices ==
    {n \in {r.value + int(safe_float(m) * SecondsPerHour, HoursDenominator) + g + e :
              r \in RunIdChoices, m \in ManifestChoices, g \in GraceChoices,
              e \in {-1, 0, 1}} : n >= 0}

InitOracle ==
    /\ now \in NowChoices
    /\ lock = NoLock
    /\ shards = [k \in ShardKeys |-> NoShard]
    /\ runStatus \in StatusChoices
    /\ dlq = {}
    /\ loc = [w \in Workers |-> NoLoc]
    /\ lk = [t \in Threads |-> NoLk]
    /\ lock_lost_event = [w \in Workers |-> FALSE]
    /\ stop_event = [w \in Workers |-> FALSE]
    /\ invoked = [k \in ShardKeys |-> 0]
    /\ succRecorded = [k \in ShardKeys |-> FALSE]
    /\ bootstrapEvents = [k \in ShardKeys |-> 0]
    /\ shard_max_attempts = 1
    /\ shards_json = ShardsJsonOf(ShardKeys)
    /\ shard_list = ShardKeys
    /\ owner = [t \in Threads |-> WorkerOf(t)]
    /\ role = [t \in Threads |-> "off"]
    /\ pc = [t \in Threads |-> IF t \in Workers THEN "idle" ELSE "hb_off"]
    /\ lock_lease_seconds = MinLeaseSeconds
    /\ lock_acquire_timeout_seconds = 0
    /\ env = NoEnv
    /\ lock_heartbeat_seconds = DefaultHeartbeatSeconds
    /\ lock_item = NoItem
    /\ dl = [t \in Threads |-> NoDl]
    /\ oracle \in {[NoOracle EXCEPT !.run_id = r, !.manifest = m,
                                    !.legacy_manifest = l, !.grace_seconds = g]
                     : r \in RunIdChoices, m \in ManifestChoices,
                       l \in LegacyManifestChoices, g \in GraceChoices}

NextOracle == CheckRunCompletion

SpecOracle == InitOracle /\ [][NextOracle]_vars


----------------------------------------------------------------------------
(* Properties *)

\* cmd_acquire printed acquired=true to thread t, and the lease of the payload
\* it printed has not run out
Holds(t) == lk[t].held # NoLock /\ ~lock_expired(lk[t].held, now)

\* C1: at no moment do two callers of Acquire with different owners both hold
\* the global lock: of two concurrent Acquire calls at most one returns
\* acquired=true while the other's lease is still unexpired.
C1_OneHolder ==
    \A t \in Workers : \A u \in Workers :
        (owner[t] # owner[u] /\ Holds(t)) => ~Holds(u)

\* claim_shard returned shard k to worker w, which has not completed it yet
Claimed(w, k) == pc[w] \in {"run_shard", "complete"} /\ loc[w].cur.key = k

\* C2: two workers that both saw shard Z claimable and both wrote a tentative
\* claim never both get Z back from claim_shard for the same attempt.
C2_OneClaimPerAttempt ==
    \A k \in ShardKeys : \A w \in Workers : \A v \in Workers :
        (w # v /\ Claimed(w, k) /\ Claimed(v, k))
            => loc[w].cur.shard.attempt # loc[v].cur.shard.attempt

\* C3: once a shard object is succeeded, failed or timed_out, no later write
\* changes its status or its attempt.
C3_TerminalIsFinal ==
    [][\A k \in ShardKeys :
          shards[k].status \in TerminalStatuses
              => /\ shards'[k].status = shards[k].status
                 /\ shards'[k].attempt = shards[k].attempt]_vars

AllowedTransitions ==
    {<<"queued", "running">>, <<"retrying", "running">>, <<"running", "succeeded">>,
     <<"running", "retrying">>, <<"running", "failed">>, <<"running", "timed_out">>}

\* C4: every change of a shard's stored status is queued->running,
\* retrying->running, running->succeeded, running->retrying, running->failed
\* or running->timed_out.
C4_ValidTransitions ==
    [][\A k \in ShardKeys :
          (shards[k] # NoShard /\ shards'[k].status # shards[k].status)
              => <<shards[k].status, shards'[k].status>> \in AllowedTransitions]_vars

\* C5: every shard object has attempt <= max_attempts, and a tentative claim
\* is written only when the attempt read is strictly below max_attempts.
C5_AttemptBound ==
    /\ \A k \in ShardKeys :
          shards[k] # NoShard => shards[k].attempt <= shards[k].max_attempts
    /\ \A w \in Workers :
          pc[w] = "confirm"
              => loc[w].snap[loc[w].idx].attempt < loc[w].snap[loc[w].idx].max_attempts

\* C5 witness: a shard claimed for its last attempt, after a retry
C5_LastAttemptClaimed ==
    \E k \in ShardKeys : /\ shards[k].status = "running"
                         /\ shards[k].attempt = shards[k].max_attempts
                         /\ shards[k].attempt > 1

\* C6: across all workers the runner is invoked for a shard at most
\* max_attempts times, and never after a success was recorded for the shard.
C6_BoundedInvocations ==
    [][\A k \in ShardKeys :
          invoked'[k] > invoked[k]
              => invoked[k] < shard_max_attempts /\ ~succRecorded[k]]_vars

\* C7: every write to a shard object or to status/run.json is made while the
\* writer's owner is the owner of an unexpired global lock object.
C7_WritesUnderLock ==
    [][(shards' # shards \/ runStatus' # runStatus)
          => /\ lock # NoLock
             /\ ~lock_expired(lock, now)
             /\ lock.owner = owner[TheWorker]]_vars

\* the worker left its loop, run() returned, every shard is terminal within
\* its attempts, run.json is terminal, and failed if a shard never succeeded
RunFinished ==
    /\ pc[TheWorker] = "returned"
    /\ runStatus.terminal
    /\ \A k \in shard_list : /\ shards[k].status \in TerminalStatuses
                             /\ shards[k].attempt <= shards[k].max_attempts
                             /\ invoked[k] <= shards[k].max_attempts
    /\ (\E k \in shard_list : shards[k].last_exit_code # 0) => runStatus.state = "failed"

\* C8: a worker that keeps the lock, does not crash and whose runner always
\* returns eventually has every shard terminal after at most max_attempts
\* attempts, run.json terminal and its loop left; the run is failed when some
\* shard's attempts all exited non-zero.
C8_RunTerminates == <>[]RunFinished

\* C8 witness: the run finished failed, a shard having used a retry
C8_FinishedFailedAfterRetry ==
    /\ RunFinished
    /\ runStatus.state = "failed"
    /\ \E k \in shard_list : invoked[k] = shards[k].max_attempts /\ invoked[k] > 1

\* C9: once the worker has left its loop on a terminal run status and run()
\* has returned (its heartbeat thread ended), the lock object is absent or
\* held by a different owner.
C9_ReleasedOnReturn ==
    (pc[TheWorker] = "returned" /\ pc[Hb(TheWorker)] = "hb_done")
        => (lock = NoLock \/ lock.owner # owner[TheWorker])

\* C10: every DLQ object belongs to a shard object that is failed or
\* timed_out at the attempt the DLQ object records.
C10_DlqMatchesShard ==
    \A d \in dlq : /\ shards[d.shard_key].status \in {"failed", "timed_out"}
                   /\ shards[d.shard_key].attempt = d.attempt


\* C11: every write that makes a shard's stored status failed or timed_out
\* is made on a path that goes on to write the DLQ object of that shard key
\* and attempt, the completion of the last attempt and the
\* attempts-exhausted branch of the claim scan alike.
C11_FailureHasDlq ==
    [][\A k \in ShardKeys :
          (shards'[k].status \in {"failed", "timed_out"} /\ shards'[k] # shards[k])
              => \E w \in Workers : /\ pc'[w] = "dlq"
                                    /\ loc'[w].cur.key = k
                                    /\ loc'[w].cur.shard.attempt = shards'[k].attempt]_vars

\* C12: in every status/run.json payload written, terminal = true implies
\* counts.queued = 0, counts.running = 0 and counts.retrying = 0.
C12_TerminalCountsZero ==
    runStatus.terminal => /\ runStatus.counts["queued"] = 0
                          /\ runStatus.counts["running"] = 0
                          /\ runStatus.counts["retrying"] = 0

\* C12 witness: a terminal payload has been written over a counted shard
C12_TerminalWritten == runStatus.terminal /\ runStatus.counts["total"] > 0

\* C13: when the initializer has completed on a namespace that held no shard
\* object, every entry of the shard list has a shard object that is queued
\* with attempt 0 and max_attempts >= 1, no other shard object exists, and
\* run.json counts as total the number of entries of the list.
C13_InitializerCreatesAll ==
    pc[TheWorker] = "rrs_read0"
        => /\ \A k \in shard_list : /\ shards[k].status = "queued"
                                    /\ shards[k].attempt = 0
                                    /\ shards[k].max_attempts >= 1
           /\ \A k \in ShardKeys \ shard_list : shards[k] = NoShard
           /\ runStatus.counts["total"] = Cardinality(shard_list)
           /\ runStatus.counts["queued"] = Cardinality(shard_list)

\* C13 witness: the initializer has completed over a list of two shards
C13_InitializerDone ==
    pc[TheWorker] = "rrs_read0" /\ Cardinality(shard_list) = 2 /\ runStatus # NoRunStatus

\* worker w is inside the initializer it runs on start
InInitializer(w) ==
    \/ pc[w] \in {"init_exists", "init_put", "urs_read", "urs_put"}
    \/ pc[w] \in {"list", "load"} /\ loc[w].ret = "urs_put"

\* C14: the initializer, run again over shard objects that exist (queued,
\* claimed, retrying or completed), leaves the status and attempt of each
\* unchanged and emits no queued event for it.
C14_RerunPreservesExisting ==
    [][\A k \in ShardKeys :
          (InInitializer(TheWorker) /\ shards[k] # NoShard)
              => /\ shards'[k].status = shards[k].status
                 /\ shards'[k].attempt = shards[k].attempt
                 /\ bootstrapEvents'[k] = bootstrapEvents[k]]_vars

\* C14 witness: the initializer has returned after creating one shard and
\* finding the other one retrying
C14_RerunDone ==
    /\ pc[TheWorker] = "rrs_read0"
    /\ \E k, j \in ShardKeys : /\ shards[k].status = "retrying"
                               /\ bootstrapEvents[k] = 0
                               /\ shards[j].status = "queued"
                               /\ bootstrapEvents[j] = 1

\* a decoded shard list that is empty or has an entry that is not an object,
\* lacks shard_key or fuzzer_key, has a negative or non-integer run_index, or
\* repeats a shard_key
Malformed(value) ==
    /\ value.is_list
    /\ \/ value.items = <<>>
       \/ \E i \in 1..Len(value.items) :
             LET item == value.items[i] IN
               \/ ~item.obj
               \/ item.shard_key = NoKey
               \/ item.fuzzer_key = NoKey
               \/ item.run_index.type # "int"
               \/ item.run_index.val < 0
       \/ \E i, j \in 1..Len(value.items) :
             i # j /\ value.items[i].shard_key = value.items[j].shard_key

\* C15: given a malformed shard list the initializer fails and writes no
\* shard object, no event and no run-status object.
C15_MalformedWritesNothing ==
    Malformed(shards_json)
        => /\ pc[TheWorker] \in {"parse", "init_failed"}
           /\ \A k \in ShardKeys : shards[k] = NoShard /\ bootstrapEvents[k] = 0
           /\ runStatus = NoRunStatus

\* the times a later aggregator run may start at
LaterTimes == {now, now + TickSeconds, now + 2 * TickSeconds}

\* C16: the aggregator run again, with no shard write in between, writes the
\* payload it wrote before (updated_at aside): state, terminal, counts,
\* created_at and completed_at are equal.
C16_AggregatorIdempotent ==
    \A w \in Workers :
        pc[w] \in {"rrs_put0", "rrs_put"}
            => LET first == refresh_run_status(loc[w].existing, loc[w].snap, now)
               IN  \A t \in LaterTimes :
                       refresh_run_status(ReadExisting(first), loc[w].snap, t) = first

\* C16 witness: an aggregator about to rewrite a terminal run.json that
\* carries an earlier completed_at
C16_RewritesTerminal ==
    \E w \in Workers :
        /\ pc[w] = "rrs_put"
        /\ loc[w].existing.completed_at # NoTime
        /\ now > loc[w].existing.completed_at
        /\ refresh_run_status(loc[w].existing, loc[w].snap, now).terminal

\* C17: once run.json carries terminal = true and a completed_at, every later
\* rewrite carries the same completed_at; created_at never changes after its
\* first write.
C17_TimestampsPreserved ==
    [][/\ runStatus.created_at # NoTime => runStatus'.created_at = runStatus.created_at
       /\ (runStatus.terminal /\ runStatus.completed_at # NoTime)
             => runStatus'.completed_at = runStatus.completed_at]_vars

\* the lock object is held, unexpired, by an owner other than t's
UnexpiredForeignLock(t) ==
    lock # NoLock /\ lock.owner # owner[t] /\ now < lock.expires_at_epoch

\* C18: an Acquire that polls while another owner holds an unexpired lock
\* writes nothing, and it returns only once acquire_timeout_seconds > 0 have
\* elapsed, with a failure, the lock object and the queue objects unchanged.
C18_TimeoutWritesNothing ==
    [][\A t \in Threads :
          (pc[t] = "acq_read" /\ UnexpiredForeignLock(t) /\ pc'[t] # pc[t])
              => /\ lock_acquire_timeout_seconds > 0
                 /\ now - lk[t].started >= lock_acquire_timeout_seconds
                 /\ pc'[t] \in {"idle", "failed"}
                 /\ lk'[t].rc = 1
                 /\ lock' = lock
                 /\ queueStore' = queueStore]_vars

\* C18 witness: an Acquire polling against another owner's unexpired lock
\* after the whole timeout has elapsed
C18_WaitedOut ==
    \E t \in Threads : /\ pc[t] = "acq_read"
                       /\ UnexpiredForeignLock(t)
                       /\ lock_acquire_timeout_seconds > 0
                       /\ now - lk[t].started >= lock_acquire_timeout_seconds

\* the delays the retry schedule lists, by attempt
BackoffSchedule(a) ==
    CASE a = 1 -> 30 [] a = 2 -> 60 [] a = 3 -> 120 [] a = 4 -> 240 [] OTHER -> 300

\* C19: a completion of attempt a with a non-zero exit code and
\* a < max_attempts writes status retrying with retry_available_at_epoch =
\* now + min(300, 30 * 2^(a-1)): 30, 60, 120, 240, then 300 from a = 5 on.
C19_BackoffSchedule ==
    [][\A w \in Workers :
          (/\ pc[w] = "complete" /\ pc'[w] # "complete"
           /\ loc[w].exitCode # 0
           /\ loc[w].cur.shard.attempt < loc[w].cur.shard.max_attempts)
              => LET sh == shards'[loc[w].cur.key]
                 IN  /\ sh.status = "retrying"
                     /\ sh.attempt = loc[w].cur.shard.attempt
                     /\ sh.retry_available_at_epoch = now + BackoffSchedule(sh.attempt)]_vars

\* C19 witness: a shard waits for its retry after attempt 5, where the cap
\* applies
C19_RetryAtCap ==
    \E k \in ShardKeys : /\ shards[k].status = "retrying"
                         /\ shards[k].attempt = 5
                         /\ shards[k].retry_available_at_epoch > now

\* C20: a shard with max_attempts = 1 is never retrying, and its first
\* execution that exits non-zero makes it failed or timed_out.
C20_SingleAttemptNeverRetries ==
    [][\A k \in ShardKeys :
          shards'[k].max_attempts = 1
              => /\ shards'[k].status # "retrying"
                 /\ \A w \in Workers :
                       (/\ pc[w] = "complete" /\ pc'[w] # "complete"
                        /\ loc[w].cur.key = k /\ loc[w].exitCode # 0)
                           => shards'[k].status \in {"failed", "timed_out"}]_vars

\* C20 witness: a shard with max_attempts = 1 failed on its only execution
C20_FailedOnFirst ==
    \E k \in ShardKeys : /\ shards[k].max_attempts = 1
                         /\ shards[k].status \in {"failed", "timed_out"}
                         /\ invoked[k] = 1


\* C21: a heartbeat by the lock's owner at now = expires_at_epoch of its own
\* lock passes the checks on the lock read, writes a payload that expires at
\* now + lease_seconds, and exits 0 when its re-read still shows its owner.
C21_HeartbeatAtExpiry ==
    [][\A t \in Threads :
          /\ (/\ pc[t] = "hb_read" /\ pc'[t] # pc[t]
              /\ lock # NoLock /\ lock.owner = owner[t] /\ now = lock.expires_at_epoch)
                => pc'[t] = "hb_put" /\ lock' = lock
          /\ (pc[t] = "hb_put" /\ pc'[t] # pc[t])
                => /\ lock'.owner = owner[t]
                   /\ lock'.expires_at_epoch = now + lock_lease_seconds
          /\ (/\ pc[t] = "hb_confirm" /\ pc'[t] # pc[t]
              /\ lock # NoLock /\ lock.owner = owner[t])
                => lk'[t].rc = 0]_vars

\* C21 witness: a shell that acquired the lock has renewed it at the instant
\* the acquired lease expired
C21_RenewedAtExpiry ==
    \E t \in Threads : /\ pc[t] = "idle" /\ lk[t].rc = 0
                       /\ lk[t].held # NoLock
                       /\ now = lk[t].held.expires_at_epoch
                       /\ lock # NoLock /\ lock.owner = owner[t]
                       /\ lock.expires_at_epoch = now + lock_lease_seconds

\* what Release by thread t makes of lock object l
ReleaseEffect(l, t) ==
    IF l # NoLock /\ (l.owner = owner[t] \/ now >= l.expires_at_epoch) THEN NoLock ELSE l

\* C22: Release on a missing lock object writes and deletes nothing and
\* exits 0; two Releases in succession leave the store as one does.
C22_ReleaseIdempotent ==
    [][\A t \in Threads :
          /\ (pc[t] = "rel_read" /\ pc'[t] # pc[t] /\ lock = NoLock)
                => /\ lk'[t].rc = 0
                   /\ pc'[t] # "rel_delete"
                   /\ lock' = NoLock
                   /\ queueStore' = queueStore
          /\ (pc[t] = "rel_delete" /\ pc'[t] # pc[t])
                => lock' = NoLock /\ ReleaseEffect(lock', t) = lock'
          /\ ReleaseEffect(ReleaseEffect(lock, t), t) = ReleaseEffect(lock, t)]_vars

\* C22 witness: a Release is under way on a lock object that is missing
\* after having been acquired
C22_ReleaseOfMissing ==
    \E t, u \in Threads : /\ pc[t] = "rel_read" /\ lock = NoLock
                          /\ lk[u].held # NoLock

\* the reading of C23: complete by a status object that is present with
\* terminal = true, or by a manifest that is present, a run_id that parses
\* and now >= run_id + timeout_hours * 3600 + grace_seconds
CompleteByStatus == runStatus # NoRunStatus /\ runStatus.terminal
CompleteByDeadline ==
    LET manifest == IF oracle.manifest.present THEN oracle.manifest
                    ELSE oracle.legacy_manifest
    IN  /\ manifest.present
        /\ oracle.run_id.ok
        /\ now * HoursDenominator
              >= oracle.run_id.value * HoursDenominator
                   + safe_float(manifest) * SecondsPerHour
                   + oracle.grace_seconds * HoursDenominator

\* C23: the completion oracle reports complete exactly when status/run.json
\* is present with terminal = true (and then with reason status_terminal), or
\* the manifest is present, run_id parses as an integer and
\* now >= run_id + timeout_hours * 3600 + grace_seconds; it writes no object.
C23_OracleCompleteExactly ==
    [][(~oracle.called /\ oracle'.called)
          => /\ oracle'.completion.complete <=> (CompleteByStatus \/ CompleteByDeadline)
             /\ CompleteByStatus => oracle'.completion.reason = "status_terminal"
             /\ storeVars' = storeVars]_vars

\* C24: Heartbeat goes on to write only when the lock it read is present,
\* owned by the caller and unexpired (now < expires_at_epoch); it exits
\* non-zero without writing when the lock is missing or is another owner's
\* unexpired lock.
C24_HeartbeatWritesOnlyUnexpired ==
    [][\A t \in Threads :
          (pc[t] = "hb_read" /\ pc'[t] # pc[t])
              => /\ pc'[t] = "hb_put"
                    => /\ lock # NoLock
                       /\ lock.owner = owner[t]
                       /\ now < lock.expires_at_epoch
                 /\ (lock = NoLock \/ UnexpiredForeignLock(t))
                    => pc'[t] # "hb_put" /\ lk'[t].rc = 2 /\ lock' = lock]_vars

\* C25: Release never deletes a lock object that, at the delete, is
\* unexpired and owned by another owner; a Release that reads such a lock
\* exits with owner_mismatch and leaves it in place.
C25_ReleaseSparesForeignLock ==
    [][\A t \in Threads :
          /\ (pc[t] = "rel_delete" /\ pc'[t] # pc[t]) => ~UnexpiredForeignLock(t)
          /\ (pc[t] = "rel_read" /\ pc'[t] # pc[t] /\ UnexpiredForeignLock(t))
                => lk'[t].rc = 1 /\ pc'[t] # "rel_delete" /\ lock' = lock]_vars


\* C26: a worker whose heartbeat thread has signaled lock loss does not
\* afterwards start a Release of the lock.
C26_NoReleaseAfterLockLost ==
    [][\A w \in Workers :
          (role[w] = "worker" /\ lock_lost_event[w] /\ pc[w] # "rel_read")
              => pc'[w] # "rel_read"]_vars

\* C27: once the lock-lost signal is set, the worker makes no tentative
\* claim write for any shard.
C27_NoClaimAfterLockLost ==
    [][\A w \in Workers :
          (role[w] = "worker" /\ lock_lost_event[w] /\ pc[w] = "scan")
              => pc'[w] # "confirm"]_vars


\* C28: every write that moves a shard out of running is made by the worker
\* whose claim_token the stored shard object carries at that write.
C28_CompletionByTokenHolder ==
    [][\A w \in Workers :
          (pc[w] = "complete" /\ pc'[w] # "complete")
              => /\ shards[loc[w].cur.key].status = "running"
                 /\ shards[loc[w].cur.key].claim_token = loc[w].cur.shard.claim_token]_vars

\* C29: the initializer never writes a shard key whose object exists, and no
\* shard that has left queued is reset to queued with attempt 0.
C29_InitNeverOverwrites ==
    [][/\ \A w \in Workers :
             (pc[w] = "init_put" /\ pc'[w] # "init_put")
                 => shards[NextKey(loc[w].idx)] = NoShard
       /\ \A k \in ShardKeys :
             shards[k].status \notin {"absent", "queued"}
                 => ~(shards'[k].status = "queued" /\ shards'[k].attempt = 0)]_vars


\* C30: the claim scan writes a tentative claim only for a shard it read as
\* queued, or as retrying with retry_available_at_epoch <= now_epoch; it never
\* claims one read as running, succeeded, failed or timed_out, and it returns
\* None only when no shard left in the listing is queued or retrying and due,
\* a retrying shard with retry_available_at_epoch = now_epoch counting as due.
C30_ScanClaimsOnlyDue ==
    [][\A w \in Workers :
          /\ (pc[w] = "scan" /\ pc'[w] = "confirm")
                => LET sh == loc[w].snap[loc'[w].idx] IN
                     /\ sh.status \in {"queued", "retrying"}
                     /\ sh.status \notin {"running", "succeeded", "failed", "timed_out"}
                     /\ sh.status = "retrying"
                           => loc[w].nowEpoch >= sh.retry_available_at_epoch
          /\ (pc[w] = "scan" /\ pc'[w] = "rrs_read")
                => \A k \in ShardKeys :
                      (k > loc[w].idx /\ loc[w].snap[k] # NoShard)
                          => /\ loc[w].snap[k].status # "queued"
                             /\ ~(/\ loc[w].snap[k].status = "retrying"
                                  /\ loc[w].snap[k].retry_available_at_epoch
                                        <= loc[w].nowEpoch)]_vars

\* C30 witness: a shard that is retrying with retry_available_at_epoch equal
\* to the scan's now_epoch has been claimed (the tentative claim is written).
C30_ClaimedAtRetryEpoch ==
    \E w \in Workers :
        /\ pc[w] = "confirm"
        /\ loc[w].snap[loc[w].idx].status = "retrying"
        /\ loc[w].snap[loc[w].idx].retry_available_at_epoch = loc[w].nowEpoch
        /\ shards[loc[w].idx].status = "running"


\* C31: complete_shard with exit code E, for a shard at attempt a with
\* ceiling m, writes succeeded iff E = 0, retrying iff E # 0 and a < m,
\* timed_out iff E = 124 and a >= m, failed iff E is neither 0 nor 124 and
\* a >= m; claim_token is cleared in all four; a DLQ object is written exactly
\* after a write of failed or timed_out, and by no other step.
C31_CompletionClassification ==
    [][/\ \A w \in Workers :
             /\ (pc[w] = "complete" /\ pc'[w] # "complete")
                   => LET sh == loc[w].cur.shard
                          E == loc[w].exitCode
                          a == sh.attempt
                          m == Max2(sh.max_attempts, 1)
                          written == shards'[loc[w].cur.key]
                      IN  /\ written.status = "succeeded" <=> E = 0
                          /\ written.status = "retrying" <=> (E # 0 /\ a < m)
                          /\ written.status = "timed_out" <=> (E = 124 /\ a >= m)
                          /\ written.status = "failed" <=> (E \notin {0, 124} /\ a >= m)
                          /\ written.claim_token = NoToken
                          /\ pc'[w] = "dlq" <=> written.status \in {"failed", "timed_out"}
             /\ (pc[w] = "dlq" /\ pc'[w] # "dlq")
                   => \E d \in dlq' : /\ d.shard_key = loc[w].cur.key
                                      /\ d.attempt = loc[w].cur.shard.attempt
                                      /\ d.status = shards[loc[w].cur.key].status
       /\ dlq' # dlq => \E w \in Workers : pc[w] = "dlq" /\ pc'[w] # "dlq"]_vars

\* C31 witness: a last attempt that exited 124 has been completed: the shard
\* is timed_out with an empty claim_token and its DLQ object is written.
C31_TimedOutWithDlq ==
    \E d \in dlq : /\ d.status = "timed_out"
                   /\ shards[d.shard_key].status = "timed_out"
                   /\ shards[d.shard_key].claim_token = NoToken


\* the aggregate C32 states for the shard payloads sn: the number of shards
\* in each of the given statuses, the state and the terminal flag
NumberIn(sn, sts) ==
    Cardinality({k \in ShardKeys : sn[k] # NoShard /\ sn[k].status \in sts})
StatedTerminal(sn) ==
    /\ NumberIn(sn, {"queued", "running", "retrying"}) = 0
    /\ NumberIn(sn, Statuses) > 0
StatedState(sn) ==
    IF NumberIn(sn, {"queued", "running", "retrying"}) > 0 \/ NumberIn(sn, Statuses) = 0
    THEN "running"
    ELSE IF NumberIn(sn, {"failed", "timed_out"}) > 0 THEN "failed"
    ELSE "succeeded"
AggregatorsAgree(ex, sn, t) ==
    LET u == update_run_status(ex, sn, t)
        r == refresh_run_status(ex, sn, t)
    IN  /\ u.state = StatedState(sn) /\ r.state = StatedState(sn)
        /\ u.terminal = StatedTerminal(sn) /\ r.terminal = StatedTerminal(sn)
        /\ u.counts = r.counts

\* C32: for every multiset of shard statuses the worker's refresh_run_status
\* and the initializer's update_run_status compute the same result: running
\* when queued + running + retrying > 0 or total = 0, else failed when
\* failed + timed_out > 0, else succeeded; terminal iff nothing is in flight
\* and total > 0.  Checked on every run.json write of either aggregator for
\* the payloads it listed, and at the initializer's write for every listing
\* of statuses, the empty one included.
C32_AggregatorsAgree ==
    [][\A w \in Workers :
          /\ (pc[w] \in {"urs_put", "rrs_put0", "rrs_put"} /\ pc'[w] # pc[w])
                => /\ AggregatorsAgree(loc[w].existing, loc[w].snap, now)
                   /\ runStatus'.state = StatedState(loc[w].snap)
                   /\ runStatus'.terminal = StatedTerminal(loc[w].snap)
          /\ (pc[w] = "urs_put" /\ pc'[w] # pc[w])
                => \A sn \in [ShardKeys -> {NoShard} \cup
                                  {[NoShard EXCEPT !.status = st] : st \in Statuses}] :
                      AggregatorsAgree(loc[w].existing, sn, now)]_vars

\* C32 witness: the initializer's aggregator has written a terminal run
\* status that is failed on account of timed-out shards alone.
C32_FailedByTimeoutAtInit ==
    \E w \in Workers :
        /\ pc[w] = "rrs_read0"
        /\ runStatus.terminal /\ runStatus.state = "failed"
        /\ runStatus.counts["failed"] = 0 /\ runStatus.counts["timed_out"] > 0



\* worker v has emitted a run_status event with a terminal state: its
\* last_run_state takes a state only when the event for it is emitted
EmittedTerminal(v) == loc[v].last_run_state \in {"succeeded", "failed"}

\* C33: over the life of a run a single run_status event carries the terminal
\* state: an aggregator run emits one only if none was emitted before, by the
\* same or by another worker.
C33_OneTerminalEvent ==
    [][\A w \in Workers :
          (/\ pc[w] \in {"rrs_put0", "rrs_put"} /\ pc'[w] # pc[w]
           /\ runStatus'.terminal
           /\ EmitsRunStatus(w, runStatus'))
              => \A v \in Workers : ~EmittedTerminal(v)]_vars


\* worker w holds a confirmed claim whose completion it has not written, and
\* the shard object is as its claim left it
HoldsConfirmedClaim(w) ==
    /\ pc[w] \in {"run_shard", "complete"}
    /\ shards[loc[w].cur.key].status = "running"
    /\ shards[loc[w].cur.key].claim_token = loc[w].cur.shard.claim_token

\* C34: while a worker that holds a confirmed claim takes no step (it has
\* stopped before its completion write), the shard object stays running with
\* its claim_token, no other worker writes to it, and status/run.json does not
\* become terminal.
C34_CrashedClaimStalls ==
    [][\A w \in Workers :
          (HoldsConfirmedClaim(w) /\ pc'[w] = pc[w])
              => /\ shards'[loc[w].cur.key] = shards[loc[w].cur.key]
                 /\ ~runStatus'.terminal]_vars


\* C35: a failed object-store write during a claim or a completion makes the
\* worker give up the current iteration only: it does not leave its loop by
\* the exception exit.
C35_WriteFailureKeepsPolling ==
    [][\A w \in Workers :
          pc[w] \in {"scan", "complete"} => pc'[w] # "raise"]_vars


\* C36: a failed read of the lock object is not taken for absence: Acquire
\* never goes on from its read to its write while an unexpired lock of
\* another owner is stored.
C36_FailedReadIsNotAbsence ==
    [][\A t \in Threads :
          (pc[t] = "acq_read" /\ pc'[t] = "acq_put") => ~UnexpiredForeignLock(t)]_vars


\* C37: when the run status is absent or non-terminal and no manifest is
\* present, the oracle reports incomplete with reason manifest_missing
\* whatever the run_id; it reports invalid_run_id only when a manifest is
\* present.
C37_ManifestMissingFirst ==
    [][(~oracle.called /\ oracle'.called)
          => LET c == oracle'.completion
                 manifest_present ==
                     oracle.manifest.present \/ oracle.legacy_manifest.present
                 non_terminal ==
                     \/ runStatus = NoRunStatus
                     \/ ~runStatus.terminal /\ runStatus.state \notin TERMINAL_STATES
             IN  /\ (non_terminal /\ ~manifest_present)
                       => ~c.complete /\ c.reason = "manifest_missing"
                 /\ c.reason = "invalid_run_id" => manifest_present]_vars


\* C38: for every combination of environment values, a constructed worker
\* has lock_lease_seconds >= 30 and lock_heartbeat_seconds <=
\* lock_lease_seconds / 3.
C38_HeartbeatWithinLease ==
    \A w \in Workers :
        (role[w] = "worker" /\ pc[w] # "new")
            => /\ lock_lease_seconds >= 30
               /\ 3 * lock_heartbeat_seconds <= lock_lease_seconds


\* C39: the DynamoDB lock's acquire writes the item only by a put that
\* succeeds iff no item exists or the stored expires_at is strictly less than
\* the acquirer's now; so no acquirer succeeds while another owner's lease is
\* unexpired; release deletes the item only when its owner_run_id is the
\* caller's, leaves another owner's item unchanged, and returns success.
C39_DynamoLockConditional ==
    [][\A t \in Threads :
          /\ (pc[t] = "dl_put" /\ pc'[t] # pc[t])
                => /\ (lock_item' # lock_item \/ dl'[t].rc = 0)
                          <=> (lock_item = NoItem \/ lock_item.expires_at < dl[t].now_epoch)
                   /\ dl'[t].rc = 0
                          => /\ lock_item'.owner_run_id = owner[t]
                             /\ ~(/\ lock_item # NoItem
                                  /\ lock_item.owner_run_id # owner[t]
                                  /\ now <= lock_item.expires_at)
          /\ (pc[t] # "dl_put" /\ pc[t] # "dl_delete" /\ pc'[t] # pc[t])
                => lock_item' = lock_item
          /\ (pc[t] = "dl_delete" /\ pc'[t] # pc[t])
                => /\ dl'[t].rc = 0
                   /\ lock_item' # lock_item => (lock_item.owner_run_id = owner[t] /\ lock_item' = NoItem)
                   /\ (lock_item # NoItem /\ lock_item.owner_run_id # owner[t]) => lock_item' = lock_item]_vars

\* C39 witness: an acquirer that was refused by the other owner's unexpired
\* item has taken the lock once that lease had passed, the other owner not
\* having released.
C39_TakenOverAfterExpiry ==
    \E t, u \in Workers :
        /\ t # u
        /\ dl[u].cmd = "acquire" /\ dl[u].rc = 0
        /\ dl[t].cmd = "acquire" /\ dl[t].rc = 0 /\ dl[t].attempt >= 1
        /\ dl[t].now_epoch > dl[u].now_epoch + dl[u].lease_seconds
        /\ lock_item.owner_run_id = owner[t]

====
